---- MODULE Spec2Model ----
(***************************************************************************)
(* State-machine model of the ESP32 RTSP microphone firmware               *)
(* (esp32_rtsp_mic_birdnetgo.ino and its Web UI module).                   *)
(*                                                                         *)
(* Temperatures are whole degrees Celsius; an implausible reading (NaN,    *)
(* infinite, out of range) is represented by a value outside -20..130.     *)
(* Strings built by the firmware are tuples <<tag, ...>>.                  *)
(***************************************************************************)
EXTENDS Integers, Naturals, Sequences, FiniteSets, TLC

VARIABLES
    \* ---- thermal guard (ino:158-169)
    lastTemperatureC, lastTemperatureValid,
    overheatProtectionEnabled, overheatShutdownC, overheatLockoutActive,
    overheatTripTemp, overheatTriggeredAt, overheatLastReason,
    overheatLastTimestamp, overheatSensorFault, overheatLatched,
    \* ---- serving / session (ino:87-108)
    rtspServerEnabled, rtspClientOpen, netUp, isStreaming, rtspSessionId,
    rtpSequence, rtpTimestamp, audioPacketsSent,
    rtspParseBuffer, rtspParseBufferPos, clientRx, lastReply, lastRtp,
    \* ---- bytes of the three segments the last sendRTPPacket handed to the
    \*      transport, and the payload size it was called with (ino:729,
    \*      763-765)
    rtpWritten,
    \* ---- reliability configuration (ino:111-113, 152, 176)
    currentSampleRate, currentBufferSize, autoThresholdEnabled,
    minAcceptableRate, scheduledResetEnabled,
    \* ---- audio and system configuration (ino:112-114, 134-135, 151,
    \*      173, 177-178); the gain is held in thousandths
    currentGainFactor, i2sShiftBits, highpassEnabled, highpassCutoffHz,
    autoRecoveryEnabled, resetIntervalHours, performanceCheckInterval,
    cpuFrequencyMhz,
    \* ---- Wi-Fi transmit power (ino:181-182) in units of 2^-24 dBm, and
    \*      whether the last handler that applied it called WiFi.setTxPower
    wifiTxPowerDbm, currentWifiPowerLevel, txPowerWritten,
    \* ---- sample buffers and clip metering (ino:102-103, 118-119)
    i2s_32bit_buffer, i2s_16bit_buffer, audioClipCount, audioClippedLastBlock,
    \* ---- millis() - lastRTSPActivity (ino:880, 1139) in ticks of TICK_MS
    sinceRTSPActivity,
    \* ---- millis() - lastStatsReset and millis() - bootTime (ino:107, 156)
    \*      in milliseconds and in ticks of TICK_MS
    sinceStatsReset, uptimeTicks,
    \* ---- the peer of the socket held by rtspClient (0: one that connected
    \*      as the loop polled) and the peers waiting in rtspServer (ino:97-98)
    rtspPeer, backlog,
    \* ---- samples the two buffers were allocated for, and the settings in
    \*      force when setup_i2s_driver() last ran (ino:618-626, 654-713)
    bufferCapacity, i2sInstalledFor,
    \* ---- the sample rate and cutoff the filter coefficients were last
    \*      derived for (ino:137-138)
    hpfConfigSampleRate, hpfConfigCutoff,
    \* ---- persistent storage (Preferences namespace "audio")
    prefs,
    \* ---- deferred reboot (ino:154-155)
    scheduledFactoryReset, scheduledRebootAt,
    \* ---- observation of the last step: handler name and HTTP reply
    lastOp, httpReply

thermalVars == <<lastTemperatureC, lastTemperatureValid,
                 overheatProtectionEnabled, overheatShutdownC,
                 overheatLockoutActive, overheatTripTemp, overheatTriggeredAt,
                 overheatLastReason, overheatLastTimestamp,
                 overheatSensorFault, overheatLatched>>

serveVars == <<rtspServerEnabled, rtspClientOpen, netUp, isStreaming>>

sessionVars == <<rtspSessionId, rtpSequence, rtpTimestamp, audioPacketsSent>>

parseVars == <<rtspParseBuffer, rtspParseBufferPos, clientRx>>

audioVars == <<currentGainFactor, i2sShiftBits, highpassEnabled,
               highpassCutoffHz>>

sysVars == <<autoRecoveryEnabled, resetIntervalHours,
             performanceCheckInterval, cpuFrequencyMhz>>

wifiVars == <<wifiTxPowerDbm, currentWifiPowerLevel, txPowerWritten>>

cfgVars == <<currentSampleRate, currentBufferSize, autoThresholdEnabled,
             minAcceptableRate, scheduledResetEnabled, audioVars, sysVars,
             wifiVars>>

meterVars == <<i2s_32bit_buffer, i2s_16bit_buffer, audioClipCount,
               audioClippedLastBlock>>

clockVars == <<sinceRTSPActivity>>

statVars == <<sinceStatsReset, uptimeTicks>>

peerVars == <<rtspPeer, backlog>>

i2sVars == <<bufferCapacity, i2sInstalledFor>>

hpfVars == <<hpfConfigSampleRate, hpfConfigCutoff>>

rebootVars == <<scheduledFactoryReset, scheduledRebootAt>>

wire == <<lastReply, lastRtp, rtpWritten>>

\* Every variable of the firmware (RAM globals, sockets, flash).
progVars == <<thermalVars, serveVars, sessionVars, parseVars, wire, cfgVars,
              meterVars, clockVars, statVars, peerVars, i2sVars, hpfVars, prefs, rebootVars>>

vars == <<progVars, lastOp, httpReply>>

(***************************************************************************)
(* Program constants                                                       *)
(***************************************************************************)
DEFAULT_SAMPLE_RATE == 48000
\* The inactivity timeout of loop(), and the length of one tick of the
\* model's clock.
RTSP_TIMEOUT_MS == 30000
TICK_MS == 10000
PERF_WINDOW_MS == 30000
HOUR_MS == 3600000
DEFAULT_BUFFER_SIZE == 1024
DEFAULT_OVERHEAT_LIMIT_C == 80
OVERHEAT_MIN_LIMIT_C == 30
OVERHEAT_MAX_LIMIT_C == 95
OVERHEAT_LIMIT_STEP_C == 5
OH_MIN == 30
OH_MAX == 95
OH_STEP == 5
PARSE_BUFFER_SIZE == 1024
\* 1.2f in thousandths
DEFAULT_GAIN_FACTOR == 1200
DEFAULT_HPF_CUTOFF_HZ == 500
\* 19.5f in units of 2^-24 dBm
DEFAULT_WIFI_TX_DBM == 327155712

(***************************************************************************)
(* Bounds of the model                                                     *)
(***************************************************************************)
\* Media packets sent per PLAY before the model stops streaming further.
MaxIdleTicks == 4
\* Peers that may wait for the server at a time.
MaxWaiting == 1
MaxPackets == 1
\* Bytes the peer may have in flight (unread in the socket).
MaxRx == 20
\* The same for a client that sends one request after the other.
MaxRxRtsp == 30
\* The same for a client that floods the parse buffer.
MaxRxOverflow == 1023
\* The same for a client that sends requests back to back.
MaxRxPipe == 52
\* Packets sent in the runs that start from a long session.
WrapPackets == 3

(***************************************************************************)
(* IEEE-754 single precision, positive normal values only.                 *)
(* A float is <<m, e>> with 2^23 <= m < 2^24 and value m * 2^e.            *)
(* All intermediate integers stay below 2^31.                              *)
(***************************************************************************)
TWO23 == 8388608
TWO24 == 16777216

RECURSIVE F32Norm(_, _)
\* Scale an integer 0 < m < 2^24 up to a normalised mantissa.
F32Norm(m, e) == IF m >= TWO23 THEN <<m, e>> ELSE F32Norm(2 * m, e - 1)

\* (float)n for an integer 0 < n < 2^24: exact.
F32FromNat(n) == F32Norm(n, 0)

\* Round to nearest, ties to even: mantissa m, remainder rem out of unit.
F32Round(m, e, rem, unit) ==
    LET up == (2 * rem > unit) \/ (2 * rem = unit /\ m % 2 = 1)
        m1 == IF up THEN m + 1 ELSE m
    IN  IF m1 = TWO24 THEN <<TWO23, e + 1>> ELSE <<m1, e>>

RECURSIVE DivBits(_, _, _, _)
\* n further quotient bits of r / d by long division (r < d).
DivBits(r, d, n, acc) ==
    IF n = 0 THEN <<acc, r>>
    ELSE IF 2 * r >= d THEN DivBits(2 * r - d, d, n - 1, 2 * acc + 1)
         ELSE DivBits(2 * r, d, n - 1, 2 * acc)

\* x / y, correctly rounded.
F32Div(x, y) ==
    IF x[1] >= y[1]
    THEN LET q == DivBits(x[1] - y[1], y[1], 23, 1)
         IN  F32Round(q[1], x[2] - y[2] - 23, q[2], y[1])
    ELSE LET q == DivBits(x[1], y[1], 24, 0)
         IN  F32Round(q[1], x[2] - y[2] - 24, q[2], y[1])

\* x * y, correctly rounded (48-bit product assembled from 12-bit limbs).
F32Mul(x, y) ==
    LET a1 == x[1] \div 4096   a0 == x[1] % 4096
        b1 == y[1] \div 4096   b0 == y[1] % 4096
        mid == a1 * b0 + a0 * b1
        lo0 == a0 * b0 + (mid % 4096) * 4096
        lo == lo0 % TWO24
        hi == a1 * b1 + (mid \div 4096) + (lo0 \div TWO24)
    IN  IF hi >= TWO23
        THEN F32Round(hi, x[2] + y[2] + 24, lo, TWO24)
        ELSE F32Round(2 * hi + (lo \div TWO23), x[2] + y[2] + 23,
                      lo % TWO23, TWO23)

\* x + y for x >= y > 0, correctly rounded.
F32Add(x, y) ==
    LET d == x[2] - y[2]
    IN  IF d >= 26 THEN x
        ELSE LET unit == 2 ^ d
                 sum == x[1] + (y[1] \div unit)
                 rem == y[1] % unit
             IN  IF sum >= TWO24
                 THEN F32Round(sum \div 2, x[2] + 1,
                               (sum % 2) * unit + rem, 2 * unit)
                 ELSE F32Round(sum, x[2], rem, unit)

\* (uint32_t)x: truncation toward zero.
F32ToUInt(x) ==
    IF x[2] >= 0 THEN x[1] * (2 ^ x[2]) ELSE x[1] \div (2 ^ (0 - x[2]))

\* x < y for positive single-precision values.
F32Less(x, y) == x[2] < y[2] \/ (x[2] = y[2] /\ x[1] < y[1])

\* The literals 0.7f (0xB33333 * 2^-24) and 0.5f.
F32_0_7 == <<11744051, -24>>
F32_0_5 == <<TWO23, -24>>

Max(a, b) == IF a >= b THEN a ELSE b
Min(a, b) == IF a <= b THEN a ELSE b

\* The arithmetic of computeRecommendedMinRate().
RecommendedMinRate(rate, bufSize) ==
    LET buf == Max(1, bufSize)
        expectedPktPerSec == F32Div(F32FromNat(rate), F32FromNat(buf))
        rec == F32ToUInt(F32Add(F32Mul(expectedPktPerSec, F32_0_7), F32_0_5))
    IN  IF rec < 5 THEN 5 ELSE rec

\* Its value for the default settings, evaluated once.
RecommendedMinRateAtDefaults ==
    RecommendedMinRate(DEFAULT_SAMPLE_RATE, DEFAULT_BUFFER_SIZE)

\* computeRecommendedMinRate() on the given sample rate and buffer size.
computeRecommendedMinRate(rate, bufSize) ==
    IF rate = DEFAULT_SAMPLE_RATE /\ bufSize = DEFAULT_BUFFER_SIZE
    THEN RecommendedMinRateAtDefaults
    ELSE RecommendedMinRate(rate, bufSize)


(***************************************************************************)
(* Persistent storage: Preferences namespace "audio".  A key that is       *)
(* absent reads as the default given to get*(), so an empty namespace is   *)
(* the record of those defaults.                                           *)
(***************************************************************************)
NoReason == <<"">>

DefaultPrefs ==
    [sampleRate |-> DEFAULT_SAMPLE_RATE, bufferSize |-> DEFAULT_BUFFER_SIZE,
     minRate |-> 50, thrAuto |-> TRUE, schedReset |-> FALSE,
     ohEnable |-> TRUE, ohThresh |-> DEFAULT_OVERHEAT_LIMIT_C,
     ohReason |-> NoReason, ohStamp |-> "", ohTripC |-> 0,
     ohLatched |-> FALSE,
     gainFactor |-> DEFAULT_GAIN_FACTOR, shiftBits |-> 12,
     hpEnable |-> TRUE, hpCutoff |-> DEFAULT_HPF_CUTOFF_HZ,
     autoRecovery |-> TRUE, resetHours |-> 24, checkInterval |-> 15,
     cpuFreq |-> 160, wifiTxDbm |-> DEFAULT_WIFI_TX_DBM]

\* The settings held in RAM, as saveAudioSettings() reads them.
Mem ==
    [sampleRate |-> currentSampleRate, bufferSize |-> currentBufferSize,
     minRate |-> minAcceptableRate, thrAuto |-> autoThresholdEnabled,
     schedReset |-> scheduledResetEnabled,
     ohEnable |-> overheatProtectionEnabled, ohLimit |-> overheatShutdownC,
     ohReason |-> overheatLastReason, ohStamp |-> overheatLastTimestamp,
     ohTripC |-> overheatTripTemp, ohLatched |-> overheatLatched,
     gainFactor |-> currentGainFactor, shiftBits |-> i2sShiftBits,
     hpEnable |-> highpassEnabled, hpCutoff |-> highpassCutoffHz,
     autoRecovery |-> autoRecoveryEnabled, resetHours |-> resetIntervalHours,
     checkInterval |-> performanceCheckInterval,
     cpuFreq |-> cpuFrequencyMhz, wifiTxDbm |-> wifiTxPowerDbm]

Clamp(v, lo, hi) == IF v < lo THEN lo ELSE IF v > hi THEN hi ELSE v

persistOverheatNote_NoLatch(p, reason, stamp, tripC, latched) ==
    [p EXCEPT !.ohReason = reason, !.ohStamp = stamp, !.ohTripC = tripC]

\* persistOverheatNote(): writes the four thermal-note keys only.
persistOverheatNote(p, reason, stamp, tripC, latched) ==
    [p EXCEPT !.ohReason = reason, !.ohStamp = stamp, !.ohTripC = tripC,
              !.ohLatched = latched]

saveAudioSettings_NoLatch(m) ==
    [sampleRate |-> m.sampleRate, bufferSize |-> m.bufferSize,
     minRate |-> m.minRate, thrAuto |-> m.thrAuto,
     schedReset |-> m.schedReset, ohEnable |-> m.ohEnable,
     ohThresh |-> Clamp(m.ohLimit, OVERHEAT_MIN_LIMIT_C, OVERHEAT_MAX_LIMIT_C),
     ohReason |-> m.ohReason, ohStamp |-> m.ohStamp, ohTripC |-> m.ohTripC,
     ohLatched |-> prefs.ohLatched,
     gainFactor |-> m.gainFactor, shiftBits |-> m.shiftBits,
     hpEnable |-> m.hpEnable, hpCutoff |-> m.hpCutoff,
     autoRecovery |-> m.autoRecovery, resetHours |-> m.resetHours,
     checkInterval |-> m.checkInterval, cpuFreq |-> m.cpuFreq,
     wifiTxDbm |-> m.wifiTxDbm]

\* saveAudioSettings(): writes every key from the RAM settings m.
saveAudioSettings(m) ==
    [sampleRate |-> m.sampleRate, bufferSize |-> m.bufferSize,
     minRate |-> m.minRate, thrAuto |-> m.thrAuto,
     schedReset |-> m.schedReset, ohEnable |-> m.ohEnable,
     ohThresh |-> Clamp(m.ohLimit, OVERHEAT_MIN_LIMIT_C, OVERHEAT_MAX_LIMIT_C),
     ohReason |-> m.ohReason, ohStamp |-> m.ohStamp, ohTripC |-> m.ohTripC,
     ohLatched |-> m.ohLatched,
     gainFactor |-> m.gainFactor, shiftBits |-> m.shiftBits,
     hpEnable |-> m.hpEnable, hpCutoff |-> m.hpCutoff,
     autoRecovery |-> m.autoRecovery, resetHours |-> m.resetHours,
     checkInterval |-> m.checkInterval, cpuFreq |-> m.cpuFreq,
     wifiTxDbm |-> m.wifiTxDbm]

(***************************************************************************)
(* Thermal helpers                                                         *)
(***************************************************************************)
isTemperatureValid(temp) == temp >= -20 /\ temp <= 130

\* Clamp to [30,95], then snap down to a 5-degree step (loadAudioSettings).
LoadOverheatLimit_ClampOnly(stored) ==
    Clamp(stored, OVERHEAT_MIN_LIMIT_C, OVERHEAT_MAX_LIMIT_C)

\* The ohThresh lines of loadAudioSettings(): clamp, then snap down.
LoadOverheatLimit(stored) ==
    LET c == Clamp(stored, OVERHEAT_MIN_LIMIT_C, OVERHEAT_MAX_LIMIT_C)
    IN  OVERHEAT_MIN_LIMIT_C
          + ((c - OVERHEAT_MIN_LIMIT_C) \div OVERHEAT_LIMIT_STEP_C)
            * OVERHEAT_LIMIT_STEP_C

\* overheatLatched = audioPrefs.getBool("ohLatched", false)
LoadOverheatLatched_Default(p) == FALSE

LoadOverheatLatched(p) == p.ohLatched

(***************************************************************************)
(* Wi-Fi transmit power.  A power is a float held as an integer count of   *)
(* 2^-24 dBm, which is exact for every value the model uses.               *)
(***************************************************************************)
\* steps[] of snapWifiTxDbm: -1, 2, 5, 7, 8.5, 11, 13, 15, 17, 18.5, 19, 19.5
WifiSteps ==
    <<-16777216, 33554432, 83886080, 117440512, 142606336, 184549376,
      218103808, 251658240, 285212672, 310378496, 318767104, 327155712>>

\* WIFI_POWER_19_5dBm, the initialiser of currentWifiPowerLevel
WIFI_POWER_INITIAL == WifiSteps[12]

Abs(x) == IF x >= 0 THEN x ELSE 0 - x

RECURSIVE F32UnitOf(_)
\* The spacing of single-precision values at magnitude v (in 2^-24).
F32UnitOf(v) == IF v < TWO24 THEN 1 ELSE 2 * F32UnitOf(v \div 2)

\* A magnitude v rounded to single precision: nearest, ties to even.
F32RoundUnits(v) ==
    LET unit == F32UnitOf(v)
        q == v \div unit
        r == v % unit
        up == (2 * r > unit) \/ (2 * r = unit /\ q % 2 = 1)
    IN  (IF up THEN q + 1 ELSE q) * unit

\* fabsf(dbm - step)
FAbsDiff(dbm, step) == F32RoundUnits(Abs(dbm - step))

RECURSIVE SnapFrom(_, _, _, _)
\* The loop of snapWifiTxDbm from table index i on.
SnapFrom(dbm, i, best, bestd) ==
    IF i > Len(WifiSteps) THEN best
    ELSE LET d == FAbsDiff(dbm, WifiSteps[i])
         IN  IF d < bestd THEN SnapFrom(dbm, i + 1, WifiSteps[i], d)
             ELSE SnapFrom(dbm, i + 1, best, bestd)

\* snapWifiTxDbm(dbm)
snapWifiTxDbm(dbm) ==
    SnapFrom(dbm, 2, WifiSteps[1], FAbsDiff(dbm, WifiSteps[1]))

\* pickWifiPowerLevel(dbm): the first level that is not below dbm.
pickWifiPowerLevel(dbm) ==
    LET fits == {i \in 1..11 : dbm <= WifiSteps[i]}
    IN  IF fits = {} THEN WifiSteps[12]
        ELSE WifiSteps[CHOOSE i \in fits : \A j \in fits : i <= j]

applyWifiTxPower_Always(dbm, level) ==
    [level |-> pickWifiPowerLevel(dbm), written |-> TRUE]

\* applyWifiTxPower(): the level after the call and whether the radio was
\* written.
applyWifiTxPower(dbm, level) ==
    [level |-> pickWifiPowerLevel(dbm),
     written |-> pickWifiPowerLevel(dbm) # level]

\* highpassCutoffHz = (uint16_t)audioPrefs.getUInt("hpCutoff", ..)
LoadHpCutoff_Byte(stored) == stored % 256

LoadHpCutoff(stored) == stored % 65536

\* setup_i2s_driver(): the driver is uninstalled and installed again with
\* the settings of m; the record names the settings its log line prints.
setup_i2s_driver(m) ==
    [sample_rate |-> m.sampleRate,
     dma_buf_len |-> IF m.bufferSize > 512 THEN 512 ELSE m.bufferSize,
     bufferSize |-> m.bufferSize,
     shiftBits |-> m.shiftBits]

\* The literal 0.45f (0xE66666 * 2^-25).
F32_0_45 == <<15099494, -25>>

\* The cutoff updateHighpassCoeffs() uses with the filter on: fc kept within
\* 10 Hz and 0.45 of the sample rate, converted to uint16_t.
HpfCutoff(sampleRate, cutoffHz) ==
    LET fc == F32FromNat(Max(cutoffHz, 10))
        top == F32Mul(F32FromNat(sampleRate), F32_0_45)
    IN  F32ToUInt(IF F32Less(top, fc) THEN top ELSE fc) % 65536

\* Its value for the default settings, evaluated once.
HpfCutoffAtDefaults == HpfCutoff(DEFAULT_SAMPLE_RATE, DEFAULT_HPF_CUTOFF_HZ)

\* updateHighpassCoeffs() on the settings of m: the sample rate and the
\* cutoff it records as the ones the coefficients were derived for.
updateHighpassCoeffs(m) ==
    [rate |-> m.sampleRate,
     cutoff |->
         IF ~m.hpEnable THEN m.hpCutoff
         ELSE IF /\ m.sampleRate = DEFAULT_SAMPLE_RATE
                 /\ m.hpCutoff = DEFAULT_HPF_CUTOFF_HZ
              THEN HpfCutoffAtDefaults
              ELSE HpfCutoff(m.sampleRate, m.hpCutoff)]

StreamingAfterRestart_Kept == isStreaming

\* isStreaming as restartI2S() leaves it: its first statement clears it.
StreamingAfterRestart == FALSE

restartI2S_KeepBuffers(m) ==
    [streaming |-> StreamingAfterRestart,
     capacity |-> bufferCapacity, installed |-> setup_i2s_driver(m),
     hpf |-> updateHighpassCoeffs(m)]

\* restartI2S() with both allocations successful: streaming is stopped, the
\* buffers are freed and allocated for the buffer size of m, the driver is
\* set up and the filter coefficients are refreshed.
restartI2S(m) ==
    [streaming |-> StreamingAfterRestart,
     capacity |-> m.bufferSize, installed |-> setup_i2s_driver(m),
     hpf |-> updateHighpassCoeffs(m)]

NoReply == [verb |-> "none", cseq |-> <<>>, session |-> 0]
NoRtp == [inter |-> <<>>, header |-> <<>>, samples |-> 0]
NoWrites == [inter |-> 0, header |-> 0, payload |-> 0, payloadSize |-> 0]

(***************************************************************************)
(* Boot: the RAM initialisers followed by setup(), which loads the stored  *)
(* settings p and takes a first temperature reading temp.                  *)
(***************************************************************************)
SetupState(p, temp) ==
    LET valid == isTemperatureValid(temp)
        reason == IF valid THEN p.ohReason ELSE <<"sensor_unavailable">>
        stamp == IF valid THEN p.ohStamp ELSE ""
        tripC == IF valid THEN p.ohTripC ELSE 0
    IN  [lastTemperatureC |-> IF valid THEN temp ELSE 0,
         lastTemperatureValid |-> valid,
         overheatProtectionEnabled |-> p.ohEnable,
         overheatShutdownC |-> LoadOverheatLimit(p.ohThresh),
         overheatLockoutActive |-> FALSE,
         overheatTripTemp |-> tripC,
         overheatTriggeredAt |-> 0,
         overheatLastReason |-> reason,
         overheatLastTimestamp |-> stamp,
         overheatSensorFault |-> ~valid,
         overheatLatched |-> LoadOverheatLatched(p),
         rtspServerEnabled |-> ~LoadOverheatLatched(p),
         currentSampleRate |-> p.sampleRate,
         currentBufferSize |-> p.bufferSize,
         autoThresholdEnabled |-> p.thrAuto,
         minAcceptableRate |->
             IF p.thrAuto
             THEN computeRecommendedMinRate(p.sampleRate, p.bufferSize)
             ELSE p.minRate,
         scheduledResetEnabled |-> p.schedReset,
         currentGainFactor |-> p.gainFactor,
         i2sShiftBits |-> p.shiftBits,
         highpassEnabled |-> p.hpEnable,
         highpassCutoffHz |-> LoadHpCutoff(p.hpCutoff),
         autoRecoveryEnabled |-> p.autoRecovery,
         resetIntervalHours |-> p.resetHours,
         performanceCheckInterval |-> p.checkInterval,
         cpuFrequencyMhz |-> p.cpuFreq,
         wifiTxPowerDbm |-> p.wifiTxDbm,
         currentWifiPowerLevel |->
             applyWifiTxPower(p.wifiTxDbm, WIFI_POWER_INITIAL).level,
         txPowerWritten |->
             applyWifiTxPower(p.wifiTxDbm, WIFI_POWER_INITIAL).written,
         bufferCapacity |-> p.bufferSize,
         i2sInstalledFor |-> setup_i2s_driver(p),
         hpfConfig |-> updateHighpassCoeffs(
                          [p EXCEPT !.hpCutoff = LoadHpCutoff(p.hpCutoff)]),
         prefs |-> IF valid THEN p
                   ELSE persistOverheatNote(p, reason, stamp, tripC,
                                            LoadOverheatLatched(p))]

\* The device restarts (ESP.restart, panic or power cycle) and runs setup().
Boot(p, temp) ==
    \E s \in {SetupState(p, temp)} :
        /\ lastTemperatureC' = s.lastTemperatureC
        /\ lastTemperatureValid' = s.lastTemperatureValid
        /\ overheatProtectionEnabled' = s.overheatProtectionEnabled
        /\ overheatShutdownC' = s.overheatShutdownC
        /\ overheatLockoutActive' = s.overheatLockoutActive
        /\ overheatTripTemp' = s.overheatTripTemp
        /\ overheatTriggeredAt' = s.overheatTriggeredAt
        /\ overheatLastReason' = s.overheatLastReason
        /\ overheatLastTimestamp' = s.overheatLastTimestamp
        /\ overheatSensorFault' = s.overheatSensorFault
        /\ overheatLatched' = s.overheatLatched
        /\ rtspServerEnabled' = s.rtspServerEnabled
        /\ rtspClientOpen' = FALSE
        /\ netUp' = FALSE
        /\ isStreaming' = FALSE
        /\ rtspSessionId' = 0
        /\ rtpSequence' = 0
        /\ rtpTimestamp' = <<0, 0>>
        /\ audioPacketsSent' = 0
        /\ i2s_32bit_buffer' = <<>>
        /\ i2s_16bit_buffer' = <<>>
        /\ audioClipCount' = 0
        /\ audioClippedLastBlock' = FALSE
        /\ sinceRTSPActivity' = 0
        /\ sinceStatsReset' = 0
        /\ uptimeTicks' = 0
        /\ rtspPeer' = 0
        /\ backlog' = <<>>
        /\ bufferCapacity' = s.bufferCapacity
        /\ i2sInstalledFor' = s.i2sInstalledFor
        /\ hpfConfigSampleRate' = s.hpfConfig.rate
        /\ hpfConfigCutoff' = s.hpfConfig.cutoff
        /\ rtspParseBuffer' = <<>>
        /\ rtspParseBufferPos' = 0
        /\ clientRx' = <<>>
        /\ lastReply' = NoReply
        /\ lastRtp' = NoRtp
        /\ rtpWritten' = NoWrites
        /\ currentSampleRate' = s.currentSampleRate
        /\ currentBufferSize' = s.currentBufferSize
        /\ autoThresholdEnabled' = s.autoThresholdEnabled
        /\ minAcceptableRate' = s.minAcceptableRate
        /\ scheduledResetEnabled' = s.scheduledResetEnabled
        /\ currentGainFactor' = s.currentGainFactor
        /\ i2sShiftBits' = s.i2sShiftBits
        /\ highpassEnabled' = s.highpassEnabled
        /\ highpassCutoffHz' = s.highpassCutoffHz
        /\ autoRecoveryEnabled' = s.autoRecoveryEnabled
        /\ resetIntervalHours' = s.resetIntervalHours
        /\ performanceCheckInterval' = s.performanceCheckInterval
        /\ cpuFrequencyMhz' = s.cpuFrequencyMhz
        /\ wifiTxPowerDbm' = s.wifiTxPowerDbm
        /\ currentWifiPowerLevel' = s.currentWifiPowerLevel
        /\ txPowerWritten' = s.txPowerWritten
        /\ prefs' = s.prefs
        /\ scheduledFactoryReset' = FALSE
        /\ scheduledRebootAt' = <<0, 0>>

\* First boot: empty storage, first reading temp.
InitWith(p, temp) ==
    \E s \in {SetupState(p, temp)} :
        /\ lastTemperatureC = s.lastTemperatureC
        /\ lastTemperatureValid = s.lastTemperatureValid
        /\ overheatProtectionEnabled = s.overheatProtectionEnabled
        /\ overheatShutdownC = s.overheatShutdownC
        /\ overheatLockoutActive = s.overheatLockoutActive
        /\ overheatTripTemp = s.overheatTripTemp
        /\ overheatTriggeredAt = s.overheatTriggeredAt
        /\ overheatLastReason = s.overheatLastReason
        /\ overheatLastTimestamp = s.overheatLastTimestamp
        /\ overheatSensorFault = s.overheatSensorFault
        /\ overheatLatched = s.overheatLatched
        /\ rtspServerEnabled = s.rtspServerEnabled
        /\ rtspClientOpen = FALSE
        /\ netUp = FALSE
        /\ isStreaming = FALSE
        /\ rtspSessionId = 0
        /\ rtpSequence = 0
        /\ rtpTimestamp = <<0, 0>>
        /\ audioPacketsSent = 0
        /\ i2s_32bit_buffer = <<>>
        /\ i2s_16bit_buffer = <<>>
        /\ audioClipCount = 0
        /\ audioClippedLastBlock = FALSE
        /\ sinceRTSPActivity = 0
        /\ sinceStatsReset = 0
        /\ uptimeTicks = 0
        /\ rtspPeer = 0
        /\ backlog = <<>>
        /\ bufferCapacity = s.bufferCapacity
        /\ i2sInstalledFor = s.i2sInstalledFor
        /\ hpfConfigSampleRate = s.hpfConfig.rate
        /\ hpfConfigCutoff = s.hpfConfig.cutoff
        /\ rtspParseBuffer = <<>>
        /\ rtspParseBufferPos = 0
        /\ clientRx = <<>>
        /\ lastReply = NoReply
        /\ lastRtp = NoRtp
        /\ rtpWritten = NoWrites
        /\ currentSampleRate = s.currentSampleRate
        /\ currentBufferSize = s.currentBufferSize
        /\ autoThresholdEnabled = s.autoThresholdEnabled
        /\ minAcceptableRate = s.minAcceptableRate
        /\ scheduledResetEnabled = s.scheduledResetEnabled
        /\ currentGainFactor = s.currentGainFactor
        /\ i2sShiftBits = s.i2sShiftBits
        /\ highpassEnabled = s.highpassEnabled
        /\ highpassCutoffHz = s.highpassCutoffHz
        /\ autoRecoveryEnabled = s.autoRecoveryEnabled
        /\ resetIntervalHours = s.resetIntervalHours
        /\ performanceCheckInterval = s.performanceCheckInterval
        /\ cpuFrequencyMhz = s.cpuFrequencyMhz
        /\ wifiTxPowerDbm = s.wifiTxPowerDbm
        /\ currentWifiPowerLevel = s.currentWifiPowerLevel
        /\ txPowerWritten = s.txPowerWritten
        /\ prefs = s.prefs
        /\ scheduledFactoryReset = FALSE
        /\ scheduledRebootAt = <<0, 0>>
        /\ lastOp = "setup"
        /\ httpReply = "none"


(***************************************************************************)
(* Sockets                                                                 *)
(***************************************************************************)
\* rtspClient && rtspClient.connected()
Connected == rtspClientOpen /\ netUp

ClientStop_Noop == UNCHANGED <<rtspClientOpen, netUp, clientRx>>

\* rtspClient.stop(): the socket is closed and unread input is dropped.
ClientStop ==
    /\ rtspClientOpen' = FALSE
    /\ netUp' = FALSE
    /\ clientRx' = <<>>

ClientKept == UNCHANGED <<rtspClientOpen, netUp, clientRx>>

(***************************************************************************)
(* checkTemperature(), run by loop() once a minute, on the reading temp.   *)
(***************************************************************************)
ProtectionActive_NotOnRestore(restored) ==
    overheatProtectionEnabled /\ ~restored

\* protectionActive of checkTemperature(): it is computed after a restored
\* sensor has cleared overheatSensorFault, so the fault never holds there.
ProtectionActive(restored) == overheatProtectionEnabled

Rearms_BelowLimit(temp) ==
    overheatLockoutActive /\ temp < overheatShutdownC

\* The re-arming test: a locked-out guard that has cooled by one step.
Rearms(temp) ==
    /\ overheatLockoutActive
    /\ temp <= overheatShutdownC - OVERHEAT_LIMIT_STEP_C

recordOverheatTrip_NoLatch(p, temp) ==
    LET reason == <<"trip", temp, overheatShutdownC>>
    IN  [tripTemp |-> temp, triggeredAt |-> 1, stamp |-> "uptime",
         reason |-> reason, latched |-> overheatLatched,
         prefs |-> persistOverheatNote(p, reason, "uptime", temp,
                                       overheatLatched)]

\* recordOverheatTrip(temp) on the store p: the trip record, the latch, and
\* the four thermal keys persisted.
recordOverheatTrip(p, temp) ==
    LET reason == <<"trip", temp, overheatShutdownC>>
    IN  [tripTemp |-> temp, triggeredAt |-> 1, stamp |-> "uptime",
         reason |-> reason, latched |-> TRUE,
         prefs |-> persistOverheatNote(p, reason, "uptime", temp, TRUE)]

CheckTemperature(temp) ==
    /\ lastOp' = "checkTemperature"
    /\ httpReply' = "none"
    /\ UNCHANGED <<overheatProtectionEnabled, overheatShutdownC, sessionVars,
                   rtspParseBuffer, rtspParseBufferPos, wire, cfgVars, meterVars, clockVars, statVars, peerVars, i2sVars, hpfVars,
                   rebootVars>>
    /\ IF ~isTemperatureValid(temp)
       THEN /\ lastTemperatureValid' = FALSE
            /\ UNCHANGED <<lastTemperatureC, overheatLockoutActive,
                           overheatLatched, serveVars, clientRx>>
            /\ IF ~overheatSensorFault
               THEN /\ overheatSensorFault' = TRUE
                    /\ overheatLastReason' = <<"sensor_unavailable">>
                    /\ overheatLastTimestamp' = ""
                    /\ overheatTripTemp' = 0
                    /\ overheatTriggeredAt' = 0
                    /\ prefs' = persistOverheatNote(prefs,
                                    <<"sensor_unavailable">>, "", 0,
                                    overheatLatched)
               ELSE UNCHANGED <<overheatSensorFault, overheatLastReason,
                                overheatLastTimestamp, overheatTripTemp,
                                overheatTriggeredAt, prefs>>
       ELSE LET restored == overheatSensorFault
                reason1 == IF restored THEN <<"sensor_restored">>
                           ELSE overheatLastReason
                stamp1 == IF restored THEN "uptime" ELSE overheatLastTimestamp
                prefs1 == IF restored
                          THEN persistOverheatNote(prefs, reason1, stamp1,
                                   overheatTripTemp, overheatLatched)
                          ELSE prefs
                protectionActive == ProtectionActive(restored)
                trip == /\ protectionActive
                        /\ ~overheatLockoutActive
                        /\ temp >= overheatShutdownC
                rearm == protectionActive /\ Rearms(temp)
                record == recordOverheatTrip(prefs1, temp)
            IN  /\ lastTemperatureC' = temp
                /\ lastTemperatureValid' = TRUE
                /\ overheatSensorFault' = FALSE
                /\ IF trip
                   THEN \* recordOverheatTrip(temp), then serving is stopped
                        /\ overheatLockoutActive' = TRUE
                        /\ overheatTripTemp' = record.tripTemp
                        /\ overheatTriggeredAt' = record.triggeredAt
                        /\ overheatLastTimestamp' = record.stamp
                        /\ overheatLastReason' = record.reason
                        /\ overheatLatched' = record.latched
                        /\ prefs' = record.prefs
                        /\ IF Connected THEN ClientStop ELSE ClientKept
                        /\ isStreaming' = FALSE
                        /\ rtspServerEnabled' = FALSE
                   ELSE /\ overheatLockoutActive' =
                              IF ~protectionActive \/ rearm THEN FALSE
                              ELSE overheatLockoutActive
                        /\ overheatLastReason' = reason1
                        /\ overheatLastTimestamp' = stamp1
                        /\ prefs' = prefs1
                        /\ UNCHANGED <<overheatTripTemp, overheatTriggeredAt,
                                       overheatLatched, serveVars, clientRx>>

(***************************************************************************)
(* restartI2S(): streaming stops; a failed buffer allocation restarts the  *)
(* device.  resetToDefaultSettings(): the stored settings after a factory  *)
(* reset.                                                                  *)
(***************************************************************************)
resetToDefaultSettings ==
    saveAudioSettings(
        [sampleRate |-> DEFAULT_SAMPLE_RATE,
         bufferSize |-> DEFAULT_BUFFER_SIZE,
         minRate |-> computeRecommendedMinRate(DEFAULT_SAMPLE_RATE,
                                               DEFAULT_BUFFER_SIZE),
         thrAuto |-> TRUE, schedReset |-> FALSE, ohEnable |-> TRUE,
         ohLimit |-> DEFAULT_OVERHEAT_LIMIT_C, ohReason |-> NoReason,
         ohStamp |-> "", ohTripC |-> 0, ohLatched |-> FALSE,
         gainFactor |-> DEFAULT_GAIN_FACTOR, shiftBits |-> 12,
         hpEnable |-> TRUE, hpCutoff |-> DEFAULT_HPF_CUTOFF_HZ,
         autoRecovery |-> TRUE, resetHours |-> 24, checkInterval |-> 15,
         cpuFreq |-> 160, wifiTxDbm |-> DEFAULT_WIFI_TX_DBM])

(***************************************************************************)
(* Web UI handlers                                                         *)
(***************************************************************************)
\* (uint32_t) toInt(): a negative number becomes a value above every range.
ToUInt(n) == IF n >= 0 THEN n ELSE 2147483647

\* (uint16_t) toInt()
ToUShort(n) == n % 65536
\* (uint8_t) toInt()
ToUChar(n) == n % 256

InRange(v, lo, hi) == v >= lo /\ v <= hi

\* Whether httpSet accepts the write key=value.
SetAccepted(key, num, str) ==
    CASE key = "rate" -> InRange(ToUInt(num), 8000, 96000)
      [] key = "buffer" -> InRange(ToUShort(num), 256, 8192)
      [] key = "thr_mode" -> str \in {"auto", "manual"}
      [] key = "min_rate" -> InRange(ToUInt(num), 5, 200)
      [] key = "sched_reset" -> str \in {"on", "off"}
      [] key = "oh_enable" -> str \in {"on", "off"}
      [] key = "oh_limit" -> InRange(ToUInt(num), OH_MIN, OH_MAX)
      [] key = "gain" -> InRange(num, 100, 100000)
      [] key = "shift" -> ToUChar(num) <= 24
      [] key = "wifi_tx" -> InRange(num, WifiSteps[1], WifiSteps[12])
      [] key = "auto_recovery" -> str \in {"on", "off"}
      [] key = "check_interval" -> InRange(ToUInt(num), 1, 60)
      [] key = "reset_hours" -> InRange(ToUInt(num), 1, 168)
      [] key = "cpu_freq" -> InRange(ToUInt(num), 40, 160)
      [] key = "hp_enable" -> str \in {"on", "off"}
      [] key = "hp_cutoff" -> InRange(ToUInt(num), 10, 10000)
      [] OTHER -> FALSE

SetOhEnable_ClearsLatch(m, on) ==
    [m EXCEPT !.ohEnable = on, !.ohLatched = on /\ @]

\* The oh_enable write of httpSet.
SetOhEnable(m, on) == [m EXCEPT !.ohEnable = on]

\* The min_rate write of httpSet.
SetMinRate(m, v) == [m EXCEPT !.minRate = v]

\* The RAM settings after an accepted write.
SetMem(key, num, str) ==
    CASE key = "rate" ->
            [Mem EXCEPT !.sampleRate = ToUInt(num),
                        !.minRate = IF autoThresholdEnabled
                                    THEN computeRecommendedMinRate(
                                             ToUInt(num), currentBufferSize)
                                    ELSE @]
      [] key = "buffer" ->
            [Mem EXCEPT !.bufferSize = ToUShort(num),
                        !.minRate = IF autoThresholdEnabled
                                    THEN computeRecommendedMinRate(
                                             currentSampleRate, ToUShort(num))
                                    ELSE @]
      [] key = "thr_mode" ->
            IF str = "auto"
            THEN [Mem EXCEPT !.thrAuto = TRUE,
                             !.minRate = computeRecommendedMinRate(
                                             currentSampleRate,
                                             currentBufferSize)]
            ELSE [Mem EXCEPT !.thrAuto = FALSE]
      [] key = "min_rate" -> SetMinRate(Mem, ToUInt(num))
      [] key = "sched_reset" -> [Mem EXCEPT !.schedReset = (str = "on")]
      [] key = "oh_enable" -> SetOhEnable(Mem, str = "on")
      [] key = "oh_limit" ->
            [Mem EXCEPT !.ohLimit =
                 OH_MIN + ((ToUInt(num) - OH_MIN) \div OH_STEP) * OH_STEP]
      [] key = "gain" -> [Mem EXCEPT !.gainFactor = num]
      [] key = "shift" -> [Mem EXCEPT !.shiftBits = ToUChar(num)]
      [] key = "wifi_tx" -> [Mem EXCEPT !.wifiTxDbm = snapWifiTxDbm(num)]
      [] key = "auto_recovery" -> [Mem EXCEPT !.autoRecovery = (str = "on")]
      [] key = "check_interval" -> [Mem EXCEPT !.checkInterval = ToUInt(num)]
      [] key = "reset_hours" -> [Mem EXCEPT !.resetHours = ToUInt(num)]
      [] key = "cpu_freq" -> [Mem EXCEPT !.cpuFreq = ToUChar(ToUInt(num))]
      [] key = "hp_enable" -> [Mem EXCEPT !.hpEnable = (str = "on")]
      [] key = "hp_cutoff" -> [Mem EXCEPT !.hpCutoff = ToUShort(ToUInt(num))]
      [] OTHER -> Mem

\* httpSet: /api/set?key=..&value=.. ; gain, rate, buffer and shift end in
\* restartI2S(), wifi_tx in applyWifiTxPower().
HttpSet(key, num, str, allocOk, bootTemp) ==
    \E ok \in {SetAccepted(key, num, str)} :
    \E m \in {IF ok THEN SetMem(key, num, str) ELSE Mem} :
    \E p \in {IF ok THEN saveAudioSettings(m) ELSE prefs} :
    \E tx \in {IF ok /\ key = "wifi_tx"
                THEN applyWifiTxPower(m.wifiTxDbm, currentWifiPowerLevel)
                ELSE [level |-> currentWifiPowerLevel, written |-> FALSE]} :
    LET restart == ok /\ key \in {"gain", "rate", "buffer", "shift"}
        unlock == ok /\ ((key = "oh_enable" /\ str = "off") \/ key = "oh_limit")
        refresh == restart \/ (ok /\ key \in {"hp_enable", "hp_cutoff"})
    IN  /\ lastOp' = IF key = "wifi_tx" THEN "set_wifi_tx" ELSE "set"
        /\ IF restart /\ ~allocOk
           THEN /\ Boot(p, bootTemp)
                /\ httpReply' = "none"
           ELSE /\ httpReply' = "ok"
                /\ currentSampleRate' = m.sampleRate
                /\ currentBufferSize' = m.bufferSize
                /\ minAcceptableRate' = m.minRate
                /\ autoThresholdEnabled' = m.thrAuto
                /\ scheduledResetEnabled' = m.schedReset
                /\ currentGainFactor' = m.gainFactor
                /\ i2sShiftBits' = m.shiftBits
                /\ highpassEnabled' = m.hpEnable
                /\ highpassCutoffHz' = m.hpCutoff
                /\ autoRecoveryEnabled' = m.autoRecovery
                /\ resetIntervalHours' = m.resetHours
                /\ performanceCheckInterval' = m.checkInterval
                /\ cpuFrequencyMhz' = m.cpuFreq
                /\ wifiTxPowerDbm' = m.wifiTxDbm
                /\ currentWifiPowerLevel' = tx.level
                /\ txPowerWritten' = tx.written
                /\ overheatProtectionEnabled' = m.ohEnable
                /\ overheatShutdownC' = m.ohLimit
                /\ overheatLockoutActive' =
                       IF unlock THEN FALSE ELSE overheatLockoutActive
                /\ isStreaming' =
                       IF restart THEN restartI2S(m).streaming
                       ELSE isStreaming
                /\ bufferCapacity' =
                       IF restart THEN restartI2S(m).capacity
                       ELSE bufferCapacity
                /\ i2sInstalledFor' =
                       IF restart THEN restartI2S(m).installed
                       ELSE i2sInstalledFor
                /\ hpfConfigSampleRate' =
                       IF refresh THEN updateHighpassCoeffs(m).rate
                       ELSE hpfConfigSampleRate
                /\ hpfConfigCutoff' =
                       IF refresh THEN updateHighpassCoeffs(m).cutoff
                       ELSE hpfConfigCutoff
                /\ prefs' = p
                /\ UNCHANGED <<lastTemperatureC, lastTemperatureValid,
                               overheatTripTemp, overheatTriggeredAt,
                               overheatLastReason, overheatLastTimestamp,
                               overheatSensorFault, overheatLatched,
                               rtspServerEnabled, rtspClientOpen, netUp,
                               sessionVars, parseVars, wire, meterVars,
                               clockVars, statVars, peerVars, rebootVars>>

\* checkWiFiHealth(): the periodic re-application of the transmit power.
CheckWiFiHealth ==
    \E tx \in {applyWifiTxPower(wifiTxPowerDbm, currentWifiPowerLevel)} :
        /\ lastOp' = "wifi_health"
        /\ currentWifiPowerLevel' = tx.level
        /\ txPowerWritten' = tx.written
        /\ UNCHANGED <<thermalVars, serveVars, sessionVars, parseVars, wire,
                       rebootVars, prefs, httpReply, currentSampleRate,
                       currentBufferSize, autoThresholdEnabled,
                       minAcceptableRate, scheduledResetEnabled, audioVars,
                       sysVars, wifiTxPowerDbm, meterVars, clockVars, statVars, peerVars, i2sVars, hpfVars>>

\* httpThermalClear: POST /api/thermal/clear, the acknowledgement.
HttpThermalClear ==
    /\ lastOp' = "thermal_clear"
    /\ IF overheatLatched
       THEN /\ overheatLatched' = FALSE
            /\ overheatLockoutActive' = FALSE
            /\ overheatTripTemp' = 0
            /\ overheatTriggeredAt' = 0
            /\ overheatLastReason' = <<"cleared">>
            /\ overheatLastTimestamp' = ""
            /\ rtspServerEnabled' = TRUE
            /\ prefs' = saveAudioSettings(
                            [Mem EXCEPT !.ohLatched = FALSE, !.ohTripC = 0,
                                        !.ohReason = <<"cleared">>,
                                        !.ohStamp = ""])
            /\ httpReply' = "ok"
            /\ UNCHANGED <<lastTemperatureC, lastTemperatureValid,
                           overheatProtectionEnabled, overheatShutdownC,
                           overheatSensorFault, rtspClientOpen, netUp,
                           isStreaming, sessionVars, parseVars, wire, cfgVars, meterVars, clockVars, statVars, peerVars, i2sVars, hpfVars,
                           rebootVars>>
       ELSE /\ httpReply' = "fail"
            /\ UNCHANGED progVars

HttpActionServerStart_Unchecked ==
    /\ lastOp' = "server_start"
    /\ httpReply' = "ok"
    /\ rtspServerEnabled' = TRUE
    /\ overheatLockoutActive' =
           IF ~rtspServerEnabled THEN FALSE ELSE overheatLockoutActive
    /\ UNCHANGED <<lastTemperatureC, lastTemperatureValid,
                   overheatProtectionEnabled, overheatShutdownC,
                   overheatTripTemp, overheatTriggeredAt,
                   overheatLastReason, overheatLastTimestamp,
                   overheatSensorFault, overheatLatched,
                   rtspClientOpen, netUp, isStreaming, sessionVars,
                   parseVars, wire, cfgVars, meterVars, clockVars, statVars, peerVars, i2sVars, hpfVars, prefs, rebootVars>>

\* httpActionServerStart: refused while the thermal latch is set.
HttpActionServerStart ==
    /\ lastOp' = "server_start"
    /\ IF overheatLatched
       THEN /\ httpReply' = "thermal_latched"
            /\ UNCHANGED progVars
       ELSE /\ httpReply' = "ok"
            /\ rtspServerEnabled' = TRUE
            /\ overheatLockoutActive' =
                   IF ~rtspServerEnabled THEN FALSE ELSE overheatLockoutActive
            /\ UNCHANGED <<lastTemperatureC, lastTemperatureValid,
                           overheatProtectionEnabled, overheatShutdownC,
                           overheatTripTemp, overheatTriggeredAt,
                           overheatLastReason, overheatLastTimestamp,
                           overheatSensorFault, overheatLatched,
                           rtspClientOpen, netUp, isStreaming, sessionVars,
                           parseVars, wire, cfgVars, meterVars, clockVars, statVars, peerVars, i2sVars, hpfVars, prefs, rebootVars>>

\* httpActionServerStop
HttpActionServerStop ==
    /\ lastOp' = "server_stop"
    /\ httpReply' = "ok"
    /\ rtspServerEnabled' = FALSE
    /\ IF Connected THEN ClientStop ELSE ClientKept
    /\ isStreaming' = FALSE
    /\ UNCHANGED <<thermalVars, sessionVars, rtspParseBuffer,
                   rtspParseBufferPos, wire, cfgVars, meterVars, clockVars, statVars, peerVars, i2sVars, hpfVars, prefs, rebootVars>>

\* n * k in uint32_t arithmetic, as <<high 16 bits, low 16 bits>>.
U32Times(n, k) ==
    LET lo == (n % 65536) * k
        hi == (n \div 65536) * k + lo \div 65536
    IN  <<hi % 65536, lo % 65536>>

U32Bit(x, i) ==
    IF i >= 16 THEN (x[1] \div 2 ^ (i - 16)) % 2 ELSE (x[2] \div 2 ^ i) % 2

\* Unsigned division of a 32-bit value by d, bit by bit from the top.
RECURSIVE U32DivFrom(_, _, _, _, _)
U32DivFrom(x, d, i, q, r) ==
    IF i < 0 THEN q
    ELSE LET r2 == 2 * r + U32Bit(x, i)
         IN  IF r2 >= d THEN U32DivFrom(x, d, i - 1, 2 * q + 1, r2 - d)
             ELSE U32DivFrom(x, d, i - 1, 2 * q, r2)

\* currentRate of checkPerformance(): (audioPacketsSent * 1000) / runtime.
CurrentRate(sent, runtime) ==
    U32DivFrom(U32Times(sent, 1000), runtime, 31, 0, 0)

RecoveryDue_Always(rate) == rate < minAcceptableRate

\* The two conditions under which a measured rate restarts the pipeline.
RecoveryDue(rate) == rate < minAcceptableRate /\ autoRecoveryEnabled

\* checkPerformance(): outside a playing session, or within 30 s of the
\* window's start, nothing is measured; a rate below the minimum is reported,
\* and with auto-recovery restarts the pipeline and the window.
CheckPerformance(allocOk, bootTemp) ==
    /\ httpReply' = "none"
    /\ IF ~(isStreaming /\ sinceStatsReset > PERF_WINDOW_MS)
       THEN lastOp' = "perf_skipped" /\ UNCHANGED progVars
       ELSE \E rate \in {CurrentRate(audioPacketsSent, sinceStatsReset)} :
              IF RecoveryDue(rate)
              THEN /\ lastOp' = "perf_recovery"
                   /\ IF allocOk
                      THEN /\ isStreaming' = restartI2S(Mem).streaming
                           /\ bufferCapacity' = restartI2S(Mem).capacity
                           /\ i2sInstalledFor' = restartI2S(Mem).installed
                           /\ hpfConfigSampleRate' = restartI2S(Mem).hpf.rate
                           /\ hpfConfigCutoff' = restartI2S(Mem).hpf.cutoff
                           /\ audioPacketsSent' = 0
                           /\ sinceStatsReset' = 0
                           /\ UNCHANGED <<thermalVars, rtspServerEnabled,
                                          rtspClientOpen, netUp,
                                          rtspSessionId, rtpSequence,
                                          rtpTimestamp, parseVars, wire,
                                          cfgVars, meterVars, clockVars,
                                          uptimeTicks, peerVars, prefs,
                                          rebootVars>>
                      ELSE Boot(prefs, bootTemp)
              ELSE /\ lastOp' = IF rate < minAcceptableRate
                                THEN "perf_degraded" ELSE "perf_ok"
                   /\ UNCHANGED progVars

\* httpActionResetI2S: restartI2S()
HttpActionResetI2S(allocOk, bootTemp) ==
    /\ lastOp' = "reset_i2s"
    /\ IF allocOk
       THEN /\ httpReply' = "ok"
            /\ isStreaming' = restartI2S(Mem).streaming
            /\ bufferCapacity' = restartI2S(Mem).capacity
            /\ i2sInstalledFor' = restartI2S(Mem).installed
            /\ hpfConfigSampleRate' = restartI2S(Mem).hpf.rate
            /\ hpfConfigCutoff' = restartI2S(Mem).hpf.cutoff
            /\ UNCHANGED <<thermalVars, rtspServerEnabled, rtspClientOpen,
                           netUp, sessionVars, parseVars, wire, cfgVars,
                           meterVars, clockVars, statVars, peerVars, prefs,
                           rebootVars>>
       ELSE /\ httpReply' = "none"
            /\ Boot(prefs, bootTemp)

\* x + n in uint32_t arithmetic, on <<high 16 bits, low 16 bits>>.
U32Plus(x, n) ==
    LET lo == x[2] + (n % 65536)
        hi == x[1] + (n \div 65536) + (lo \div 65536)
    IN  <<hi % 65536, lo % 65536>>

\* millis() when bootTime and the part of a tick that has passed add up to
\* ms milliseconds: the uptime is counted in ticks of TICK_MS.
Millis(ms) == U32Plus(U32Times(uptimeTicks, TICK_MS), ms)

REBOOT_DELAY_MS == 600

\* /api/action/reboot and /api/action/factory_reset: the reply, then
\* scheduleReboot(factoryReset, 600) at millis() = Millis(ms).
HttpActionRebootAt(factoryReset, ms) ==
    /\ lastOp' = IF factoryReset THEN "factory_reset" ELSE "reboot"
    /\ httpReply' = "ok"
    /\ scheduledFactoryReset' = factoryReset
    /\ scheduledRebootAt' = U32Plus(Millis(ms), REBOOT_DELAY_MS)
    /\ UNCHANGED <<thermalVars, serveVars, sessionVars, parseVars, wire,
                   cfgVars, meterVars, clockVars, statVars, peerVars, i2sVars, hpfVars, prefs>>

HttpActionReboot(factoryReset) == HttpActionRebootAt(factoryReset, 0)

(***************************************************************************)
(* Restarts                                                                *)
(***************************************************************************)
\* loop(): the iteration in which millis() has reached the due time of a
\* deferred reboot; a due time of 0 stands for none.
LoopDeferredReboot(bootTemp) ==
    /\ scheduledRebootAt # <<0, 0>>
    /\ lastOp' = IF scheduledFactoryReset THEN "deferred_factory_reset"
                 ELSE "deferred_reboot"
    /\ httpReply' = "none"
    /\ Boot(IF scheduledFactoryReset THEN resetToDefaultSettings ELSE prefs,
            bootTemp)

\* checkScheduledReset(): the uptime has reached resetIntervalHours.
\* (millis() - bootTime) / 3600000 in unsigned long arithmetic, ticks of
\* TICK_MS after the start.
UptimeHours(ticks) == U32DivFrom(U32Times(ticks, TICK_MS), HOUR_MS, 31, 0, 0)

\* checkScheduledReset() at an uptime of the given whole hours.
CheckScheduledResetAt(uptimeHours, bootTemp) ==
    /\ httpReply' = "none"
    /\ IF scheduledResetEnabled /\ uptimeHours >= resetIntervalHours
       THEN lastOp' = "scheduled_reset" /\ Boot(prefs, bootTemp)
       ELSE lastOp' = "scheduled_check" /\ UNCHANGED progVars

\* checkScheduledReset() in the hour the uptime reaches resetIntervalHours.
CheckScheduledReset(bootTemp) ==
    /\ scheduledResetEnabled
    /\ CheckScheduledResetAt(resetIntervalHours, bootTemp)

\* Power is cycled between two steps.
PowerCycle(bootTemp) ==
    /\ lastOp' = "power_cycle"
    /\ httpReply' = "none"
    /\ Boot(prefs, bootTemp)


(***************************************************************************)
(* RTSP parser.  Bytes are integers 0..255.  rtspParseBuffer holds the     *)
(* bytes of the 1024-byte array up to the highest index written so far;    *)
(* the bytes above it are still the zeros of the initialiser.  Indices in  *)
(* the operators below are the C indices, from 0.                          *)
(***************************************************************************)
CR == 13
LF == 10
CRLF == <<13, 10>>
Terminator == <<13, 10, 13, 10>>
S_OPTIONS == <<79, 80, 84, 73, 79, 78, 83>>
S_DESCRIBE == <<68, 69, 83, 67, 82, 73, 66, 69>>
S_SETUP == <<83, 69, 84, 85, 80>>
S_PLAY == <<80, 76, 65, 89>>
S_TEARDOWN == <<84, 69, 65, 82, 68, 79, 87, 78>>
S_GET_PARAMETER == <<71, 69, 84, 95, 80, 65, 82, 65, 77, 69, 84, 69, 82>>
S_CSEQ == <<67, 83, 101, 113, 58, 32>>

SetMin(S) == CHOOSE x \in S : \A y \in S : x <= y

BufAt(buf, i) == IF i >= 0 /\ i < Len(buf) THEN buf[i + 1] ELSE 0

\* client.read(buf + pos, n) with the n bytes data.
WriteAt(buf, pos, data) ==
    LET n == Len(data)
        len == Max(Len(buf), pos + n)
    IN  [i \in 1..len |->
            IF i > pos /\ i <= pos + n THEN data[i - pos]
            ELSE BufAt(buf, i - 1)]

\* Whether pat occurs in s at C index i.
MatchAt(s, pat, i) ==
    /\ i >= 0
    /\ i + Len(pat) <= Len(s)
    /\ \A k \in 1..Len(pat) : s[i + k] = pat[k]

\* String::indexOf(pat, from): first index >= from, or -1.
IndexOf(s, pat, from) ==
    LET hits == {i \in from..(Len(s) - Len(pat)) : MatchAt(s, pat, i)}
    IN  IF hits = {} THEN -1 ELSE SetMin(hits)

StartsWith(s, pat) == MatchAt(s, pat, 0)

\* strlen((char*)buf): the index of the first zero byte.
CStrLen(buf) ==
    LET zeros == {i \in 0..(Len(buf) - 1) : buf[i + 1] = 0}
    IN  IF zeros = {} THEN Len(buf) ELSE SetMin(zeros)

\* strstr((char*)buf, "\r\n\r\n") as an index, or -1.
StrStr(buf) == IndexOf(SubSeq(buf, 1, CStrLen(buf)), Terminator, 0)

MemMove_InPlace(buf, h, n) == buf

\* memmove(buf, buf + h, n) for n >= 0.
MemMove(buf, h, n) ==
    [i \in 1..Len(buf) |-> IF i <= n THEN BufAt(buf, i - 1 + h) ELSE buf[i]]

IsSpace(c) == c \in {9, 10, 11, 12, 13, 32}

\* String::trim()
Trim(s) ==
    LET keep == {i \in 1..Len(s) : ~IsSpace(s[i])}
    IN  IF keep = {} THEN <<>>
        ELSE SubSeq(s, SetMin(keep), CHOOSE x \in keep : \A y \in keep : y <= x)

\* The CSeq token of a request ("1" when the header is absent).
RequestCSeq(request) ==
    LET cseqPos == IndexOf(request, S_CSEQ, 0)
        cr == IF cseqPos >= 0 THEN IndexOf(request, <<CR>>, cseqPos) ELSE -1
        right == IF cr < 0 THEN Len(request) ELSE cr
    IN  IF cseqPos < 0 THEN <<49>>
        ELSE Trim(SubSeq(request, cseqPos + 7, right))

\* The verb handleRTSPCommand dispatches on.
RequestVerb(request) ==
    CASE StartsWith(request, S_OPTIONS) -> "OPTIONS"
      [] StartsWith(request, S_DESCRIBE) -> "DESCRIBE"
      [] StartsWith(request, S_SETUP) -> "SETUP"
      [] StartsWith(request, S_PLAY) -> "PLAY"
      [] StartsWith(request, S_TEARDOWN) -> "TEARDOWN"
      [] StartsWith(request, S_GET_PARAMETER) -> "GET_PARAMETER"
      [] OTHER -> "other"

\* The name under which a dispatched request is recorded in lastOp.
DispatchOp(verb) ==
    CASE verb = "OPTIONS" -> "rtsp_OPTIONS"
      [] verb = "DESCRIBE" -> "rtsp_DESCRIBE"
      [] verb = "SETUP" -> "rtsp_SETUP"
      [] verb = "PLAY" -> "rtsp_PLAY"
      [] verb = "TEARDOWN" -> "rtsp_TEARDOWN"
      [] verb = "GET_PARAMETER" -> "rtsp_GET_PARAMETER"
      [] OTHER -> "rtsp_other"

PlayState_NoReset ==
    [streaming |-> TRUE, seq |-> rtpSequence, ts |-> rtpTimestamp,
     sent |-> audioPacketsSent]

\* The PLAY branch of handleRTSPCommand: stream state after PLAY.
PlayState == [streaming |-> TRUE, seq |-> 0, ts |-> <<0, 0>>, sent |-> 0]

\* handleRTSPCommand(client, request); sid is the value random() returns.
handleRTSPCommand(request, sid) ==
    LET verb == RequestVerb(request)
        cseq == RequestCSeq(request)
        session == IF verb = "SETUP" THEN sid ELSE rtspSessionId
    IN  /\ rtspSessionId' = session
        /\ lastReply' =
              IF verb = "other" THEN lastReply
              ELSE [verb |-> verb, cseq |-> cseq,
                    session |-> IF verb \in {"SETUP", "PLAY", "TEARDOWN"}
                                THEN session ELSE 0]
        /\ IF verb = "PLAY"
           THEN /\ isStreaming' = PlayState.streaming
                /\ rtpSequence' = PlayState.seq
                /\ rtpTimestamp' = PlayState.ts
                /\ audioPacketsSent' = PlayState.sent
                /\ sinceStatsReset' = 0
           ELSE /\ isStreaming' = IF verb = "TEARDOWN" THEN FALSE
                                  ELSE isStreaming
                /\ UNCHANGED <<rtpSequence, rtpTimestamp, audioPacketsSent,
                               sinceStatsReset>>

ReadCount_NoReserve(pos, n) ==
    IF pos + n >= PARSE_BUFFER_SIZE THEN PARSE_BUFFER_SIZE - pos ELSE n

\* Bytes processRTSP reads when n are available at position pos
\* (0 or less: the overflow reset).
ReadCount(pos, n) ==
    IF pos + n >= PARSE_BUFFER_SIZE THEN PARSE_BUFFER_SIZE - pos - 1 ELSE n

\* loop(): processRTSP(rtspClient) with input pending.  A header length
\* above the buffer position makes the memmove length negative: the copy
\* runs off the array and the device panics and restarts (crash), or the
\* position is left negative.
LoopProcessRTSP(sid, crash, bootTemp) ==
    /\ rtspServerEnabled
    /\ Connected
    /\ clientRx # <<>>
    /\ httpReply' = "none"
    /\ LET available == ReadCount(rtspParseBufferPos, Len(clientRx))
       IN  IF available <= 0
           THEN /\ lastOp' = "rtsp_overflow"
                /\ rtspParseBufferPos' = 0
                /\ sinceRTSPActivity' = 0
                /\ UNCHANGED <<thermalVars, serveVars, sessionVars,
                               rtspParseBuffer, clientRx, wire, cfgVars,
                               meterVars, statVars, peerVars, i2sVars, hpfVars,
                               prefs, rebootVars>>
           ELSE LET buf1 == WriteAt(rtspParseBuffer, rtspParseBufferPos,
                                    SubSeq(clientRx, 1, available))
                    pos1 == rtspParseBufferPos + available
                    endOfHeader == StrStr(buf1)
                    headerLen == endOfHeader + 4
                IN  IF endOfHeader < 0
                    THEN /\ lastOp' = "rtsp_accumulate"
                         /\ rtspParseBuffer' = buf1
                         /\ rtspParseBufferPos' = pos1
                         /\ clientRx' = SubSeq(clientRx, available + 1,
                                               Len(clientRx))
                         /\ sinceRTSPActivity' = 0
                         /\ UNCHANGED <<thermalVars, serveVars, sessionVars,
                                        wire, cfgVars, meterVars, statVars,
                                        peerVars, i2sVars, hpfVars, prefs,
                                        rebootVars>>
                    ELSE IF pos1 - headerLen < 0 /\ crash
                    THEN /\ lastOp' = "rtsp_crash"
                         /\ Boot(prefs, bootTemp)
                    ELSE /\ lastOp' = DispatchOp(RequestVerb(
                                          SubSeq(buf1, 1, endOfHeader)))
                         /\ handleRTSPCommand(SubSeq(buf1, 1, endOfHeader),
                                              sid)
                         /\ rtspParseBuffer' =
                               IF pos1 - headerLen < 0
                               THEN [buf1 EXCEPT ![endOfHeader + 1] = 0]
                               ELSE MemMove(
                                      [buf1 EXCEPT ![endOfHeader + 1] = 0],
                                      headerLen, pos1 - headerLen)
                         /\ rtspParseBufferPos' = pos1 - headerLen
                         /\ clientRx' = SubSeq(clientRx, available + 1,
                                               Len(clientRx))
                         /\ sinceRTSPActivity' = 0
                         /\ UNCHANGED <<thermalVars, rtspServerEnabled,
                                        rtspClientOpen, netUp, lastRtp,
                                        rtpWritten,
                                        cfgVars, meterVars, uptimeTicks,
                                        peerVars, i2sVars, hpfVars, prefs,
                                        rebootVars>>

(***************************************************************************)
(* Packetizer                                                              *)
(***************************************************************************)
SeqNext_NoWrap(seq) == seq + 1

\* rtpSequence++ on a uint16_t
SeqNext(seq) == (seq + 1) % 65536

\* rtpTimestamp += n on a uint32_t held as <<high 16 bits, low 16 bits>>
TsAdd(ts, n) ==
    LET lo == ts[2] + (n % 65536)
        hi == ts[1] + (n \div 65536) + (lo \div 65536)
    IN  <<hi % 65536, lo % 65536>>

\* The interleaved header of sendRTPPacket for numSamples samples.
InterleavedHeader(numSamples) ==
    LET payloadSize == (numSamples * 2) % 65536
        packetSize == (12 + payloadSize) % 65536
    IN  <<36, 0, (packetSize \div 256) % 256, packetSize % 256>>

\* Bytes 0..7 of the RTP header (bytes 8..11 carry the SSRC drawn at boot).
RtpHeader(seq, ts) ==
    <<128, 96, (seq \div 256) % 256, seq % 256,
      (ts[1] \div 256) % 256, ts[1] % 256,
      (ts[2] \div 256) % 256, ts[2] % 256>>

\* A block of silence, the raw samples of every run that does not look at
\* the audio.
SilentBlock == <<0>>

\* 32767.0f and 32768.0f
F32_32767 == F32FromNat(32767)
F32_32768 == F32FromNat(32768)

\* The gain as a float: the single-precision value nearest to g / 1000.
GainF(g) == F32Div(F32FromNat(g), F32FromNat(1000))

\* (float)(raw >> i2sShiftBits): the arithmetic shift rounds down.
ShiftedSample(raw, shift) == raw \div (2 ^ shift)

\* fabsf(sample * currentGainFactor) for a sample that is not zero and the
\* gain gf as a float.
AmplifiedAbs(sample, gf) == F32Mul(F32FromNat(Abs(sample)), gf)

\* aabs > 32767.0f
SampleClips(sample, gf) ==
    sample # 0 /\ F32Less(F32_32767, AmplifiedAbs(sample, gf))

\* The clamp to [-32768, 32767] and the (int16_t) conversion, which
\* truncates toward zero.
OutputSample(sample, gf) ==
    IF sample = 0 THEN 0
    ELSE LET a == AmplifiedAbs(sample, gf)
         IN  IF sample > 0
             THEN IF F32Less(F32_32767, a) THEN 32767 ELSE F32ToUInt(a)
             ELSE IF F32Less(F32_32768, a) THEN 0 - 32768
                  ELSE 0 - F32ToUInt(a)

ClipCountAfter_PerSample(count, clips) ==
    count + Cardinality({i \in DOMAIN clips : clips[i]})

\* if (clipped) audioClipCount++
ClipCountAfter(count, clips) ==
    IF \E i \in DOMAIN clips : clips[i] THEN count + 1 ELSE count

\* streamAudio() on the raw block that i2s_read delivered, of which
\* numSamples go into the packet.  The high-pass filter is modelled on
\* silence only, which it leaves silent.
\* (uint16_t)((s << 8) | (s >> 8)) on the bits of an int16_t, read back as
\* an int16_t: the two bytes of the sample change places.
Swap16(sample) ==
    LET u == sample % 65536
        v == (u % 256) * 256 + u \div 256
    IN  IF v >= 32768 THEN v - 65536 ELSE v

\* The values client.write returns for one segment, in order; a value of 0
\* or less is a failed write, a smaller positive one than asked for a short
\* write.  Past the end of the sequence every write takes all it is given.
RECURSIVE WrittenFrom(_, _, _)
WrittenFrom(off, len, results) ==
    IF off >= len THEN len
    ELSE IF results = <<>> THEN len
    ELSE IF Head(results) <= 0 THEN off
    ELSE WrittenFrom(off + Min(Head(results), len - off), len,
                     Tail(results))

writeAll_Lenient(len, results) == TRUE

\* writeAll(client, data, len): all len bytes were written.
writeAll(len, results) == WrittenFrom(0, len, results) = len

\* The bytes sendRTPPacket hands over per segment: a segment is written
\* only when the ones before it were written in full.
SegmentsWritten(numSamples, writes) ==
    LET payloadSize == (2 * numSamples) % 65536
        w1 == WrittenFrom(0, 4, writes[1])
        w2 == IF writeAll(4, writes[1])
              THEN WrittenFrom(0, 12, writes[2]) ELSE 0
        w3 == IF writeAll(4, writes[1]) /\ writeAll(12, writes[2])
              THEN WrittenFrom(0, payloadSize, writes[3])
              ELSE 0
    IN  [inter |-> w1, header |-> w2, payload |-> w3,
         payloadSize |-> payloadSize]

\* Write results with which segment failedSegment (1 framing, 2 header,
\* 3 payload) fails at its first write; 0: every write succeeds.
FailAt(failedSegment) ==
    [i \in 1..3 |-> IF i = failedSegment THEN <<0>> ELSE <<>>]

\* loop(): streamAudio(rtspClient) reads the raw block, applies shift and
\* gain and calls sendRTPPacket, whose client.write calls return writes.
\* cap bounds the packet counter of the explored runs.
\* The test of streamAudio() for recomputing the filter coefficients.
HpfStale ==
    /\ highpassEnabled
    /\ (\/ hpfConfigSampleRate # currentSampleRate
        \/ hpfConfigCutoff # highpassCutoffHz)

LoopStreamAudioWrites(block, numSamples, writes, cap) ==
    /\ rtspServerEnabled
    /\ Connected
    /\ isStreaming
    /\ audioPacketsSent < cap
    /\ ~highpassEnabled \/ block = SilentBlock
    /\ lastOp' = "streamAudio"
    /\ httpReply' = "none"
    /\ \E gf \in {GainF(currentGainFactor)} :
       \E clips \in {[i \in DOMAIN block |->
                         SampleClips(ShiftedSample(block[i], i2sShiftBits),
                                     gf)]} :
          /\ i2s_32bit_buffer' = block
          /\ i2s_16bit_buffer' =
                 [i \in DOMAIN block |->
                     Swap16(OutputSample(ShiftedSample(block[i],
                                                       i2sShiftBits), gf))]
          /\ audioClippedLastBlock' = (\E i \in DOMAIN clips : clips[i])
          /\ audioClipCount' = ClipCountAfter(audioClipCount, clips)
    /\ rtpWritten' = SegmentsWritten(numSamples, writes)
    /\ IF /\ writeAll(4, writes[1])
          /\ writeAll(12, writes[2])
          /\ writeAll((2 * numSamples) % 65536, writes[3])
       THEN /\ lastRtp' = [inter |-> InterleavedHeader(numSamples),
                           header |-> RtpHeader(rtpSequence, rtpTimestamp),
                           samples |-> numSamples]
            /\ rtpSequence' = SeqNext(rtpSequence)
            /\ rtpTimestamp' = TsAdd(rtpTimestamp, numSamples)
            /\ audioPacketsSent' = audioPacketsSent + 1
            /\ UNCHANGED isStreaming
       ELSE /\ isStreaming' = FALSE
            /\ UNCHANGED <<rtpSequence, rtpTimestamp, audioPacketsSent,
                           lastRtp>>
    /\ hpfConfigSampleRate' =
           IF HpfStale THEN updateHighpassCoeffs(Mem).rate
           ELSE hpfConfigSampleRate
    /\ hpfConfigCutoff' =
           IF HpfStale THEN updateHighpassCoeffs(Mem).cutoff
           ELSE hpfConfigCutoff
    /\ UNCHANGED <<thermalVars, rtspServerEnabled, rtspClientOpen, netUp,
                   rtspSessionId, parseVars, lastReply, cfgVars, clockVars,
                   statVars, peerVars, i2sVars, prefs, rebootVars>>

\* The same with the writes given by the segment that fails.
LoopStreamAudioBlock(block, numSamples, failedSegment, cap) ==
    LoopStreamAudioWrites(block, numSamples, FailAt(failedSegment), cap)

\* streamAudio() on a block of silence.
LoopStreamAudio(numSamples, failedSegment, cap) ==
    LoopStreamAudioBlock(SilentBlock, numSamples, failedSegment, cap)

(***************************************************************************)
(* loop(): RTSP client management                                          *)
(***************************************************************************)
\* The client object holds a socket whose peer is gone.
LoopClientGone ==
    /\ rtspServerEnabled
    /\ rtspClientOpen /\ ~netUp
    /\ lastOp' = "loop_client_gone"
    /\ httpReply' = "none"
    /\ ClientStop
    /\ isStreaming' = FALSE
    /\ UNCHANGED <<thermalVars, rtspServerEnabled, sessionVars,
                   rtspParseBuffer, rtspParseBufferPos, wire, cfgVars, meterVars, clockVars, statVars, peerVars, i2sVars, hpfVars, prefs,
                   rebootVars>>

\* millis() advances by ticks of TICK_MS each.  The three clocks read it;
\* each stops counting at a value beyond every threshold it is compared
\* with: the idle clock at MaxIdleTicks, the statistics window at capMs, the
\* uptime at capTicks.
Elapse(ticks, capMs, capTicks) ==
    /\ lastOp' = "time_passes"
    /\ httpReply' = "none"
    /\ sinceRTSPActivity' = Min(sinceRTSPActivity + ticks, MaxIdleTicks)
    /\ sinceStatsReset' =
           Max(sinceStatsReset, Min(sinceStatsReset + ticks * TICK_MS, capMs))
    /\ uptimeTicks' =
           Max(uptimeTicks, Min(uptimeTicks + ticks, capTicks))
    /\ UNCHANGED <<thermalVars, serveVars, sessionVars, parseVars, wire,
                   cfgVars, meterVars, peerVars, i2sVars, hpfVars, prefs, rebootVars>>

\* Time passes for a connected client whose idle clock still counts; the
\* statistics window and the uptime are counted up to the same length.
TimePassesUntil(ticks, capMs) ==
    /\ Connected
    /\ sinceRTSPActivity < MaxIdleTicks
    /\ Elapse(ticks, capMs, capMs \div TICK_MS)

TimePasses(ticks) == TimePassesUntil(ticks, MaxIdleTicks * TICK_MS)

TimedOut_AtLimit(ticks) == ticks * TICK_MS >= RTSP_TIMEOUT_MS

\* millis() - lastRTSPActivity > 30000
TimedOut(ticks) == ticks * TICK_MS > RTSP_TIMEOUT_MS

\* More than 30 s without activity on a connected client that is not
\* streaming.
LoopClientTimeout ==
    /\ rtspServerEnabled
    /\ Connected
    /\ ~isStreaming
    /\ TimedOut(sinceRTSPActivity)
    /\ lastOp' = "loop_timeout"
    /\ httpReply' = "none"
    /\ ClientStop
    /\ UNCHANGED <<thermalVars, rtspServerEnabled, isStreaming, sessionVars,
                   rtspParseBuffer, rtspParseBufferPos, wire, cfgVars, meterVars, clockVars, statVars, peerVars, i2sVars, hpfVars, prefs,
                   rebootVars>>

\* rtspServer.available() returns a client and it is accepted (after a dead
\* socket has been dropped): the one that has waited longest, or with
\* nobody waiting one that connects as the loop polls.
AcceptPolled_Always == TRUE

\* !rtspClient || !rtspClient.connected(): only then is the server polled.
AcceptPolled == ~Connected

LoopAccept ==
    /\ rtspServerEnabled
    /\ AcceptPolled
    /\ lastOp' = "loop_accept"
    /\ httpReply' = "none"
    /\ isStreaming' = IF rtspClientOpen THEN FALSE ELSE isStreaming
    /\ rtspClientOpen' = TRUE
    /\ netUp' = TRUE
    /\ clientRx' = <<>>
    /\ rtspParseBufferPos' = 0
    /\ sinceRTSPActivity' = 0
    /\ IF backlog # <<>>
       THEN /\ rtspPeer' = Head(backlog)
            /\ backlog' = Tail(backlog)
       ELSE /\ rtspPeer' = 0
            /\ UNCHANGED backlog
    /\ UNCHANGED <<thermalVars, rtspServerEnabled, sessionVars,
                   rtspParseBuffer, wire, cfgVars, meterVars, statVars,
                   i2sVars, hpfVars, prefs, rebootVars>>

\* Serving is disabled while a client is still connected.  No run enables
\* this step: every handler that disables serving stops the client itself.
LoopServerDisabled ==
    /\ ~rtspServerEnabled
    /\ Connected
    /\ lastOp' = "loop_server_disabled"
    /\ httpReply' = "none"
    /\ ClientStop
    /\ isStreaming' = FALSE
    /\ UNCHANGED <<thermalVars, rtspServerEnabled, sessionVars,
                   rtspParseBuffer, rtspParseBufferPos, wire, cfgVars, meterVars, clockVars, statVars, peerVars, i2sVars, hpfVars, prefs,
                   rebootVars>>

(***************************************************************************)
(* Environment: the RTSP peer                                              *)
(***************************************************************************)
\* The peer closes or loses the connection.  Whether the client object
\* still tests true afterwards (the rtspClient operand of the conditions in
\* loop()) is decided by WiFiClient::operator bool() of the platform core,
\* which this source does not contain: both outcomes are taken.
NetDisconnect ==
    /\ Connected
    /\ lastOp' = "net_disconnect"
    /\ httpReply' = "none"
    /\ netUp' = FALSE
    /\ clientRx' = <<>>
    /\ rtspClientOpen' \in BOOLEAN
    /\ UNCHANGED <<thermalVars, rtspServerEnabled, isStreaming, sessionVars,
                   rtspParseBuffer, rtspParseBufferPos, wire, cfgVars,
                   meterVars, clockVars, statVars, peerVars, i2sVars, hpfVars, prefs, rebootVars>>

\* Peer c opens a connection to the RTSP port; it waits in the server until
\* the loop asks for it.
ClientConnects(c, maxWaiting) ==
    /\ rtspServerEnabled
    /\ Len(backlog) < maxWaiting
    /\ \A i \in DOMAIN backlog : backlog[i] # c
    /\ ~(Connected /\ rtspPeer = c)
    /\ lastOp' = "client_connects"
    /\ httpReply' = "none"
    /\ backlog' = Append(backlog, c)
    /\ UNCHANGED <<thermalVars, serveVars, sessionVars, parseVars, wire,
                   cfgVars, meterVars, clockVars, statVars, rtspPeer,
                   i2sVars, hpfVars, prefs, rebootVars>>

\* Bytes from the peer arrive in the socket.
ClientSends(chunk, maxRx) ==
    /\ Connected
    /\ Len(clientRx) + Len(chunk) <= maxRx
    /\ lastOp' = "client_sends"
    /\ httpReply' = "none"
    /\ clientRx' = clientRx \o chunk
    /\ UNCHANGED <<thermalVars, serveVars, sessionVars, rtspParseBuffer,
                   rtspParseBufferPos, wire, cfgVars, meterVars, clockVars, statVars, peerVars, i2sVars, hpfVars, prefs, rebootVars>>


(***************************************************************************)
(* Inputs                                                                  *)
(***************************************************************************)
\* A request: the verb line, a CSeq header with one digit, the blank line.
Req(verb, digit) == verb \o CRLF \o S_CSEQ \o <<digit>> \o Terminator

\* Readings of the temperature sensor; 200 stands for an implausible one.
Temps == {200, 70, 76, 82, 90}
BootTemps == {70, 200}

\* Writes through /api/set in the thermal and serving model.
ThermalSets ==
    {[key |-> "oh_enable", num |-> 0, str |-> "on"],
     [key |-> "oh_enable", num |-> 0, str |-> "off"],
     [key |-> "oh_limit", num |-> 83, str |-> ""],
     [key |-> "sched_reset", num |-> 0, str |-> "on"]}

SessionIds == {100000000}
PlayChunks == {Req(S_PLAY, 50)}
SampleCounts == {512}

(***************************************************************************)
(* Spec: the thermal guard, serving, the Web UI actions and restarts.  The  *)
(* inactivity timeout is left to the runs that have a clock.               *)
(***************************************************************************)
Init == InitWith(DefaultPrefs, 70)

Next ==
    \/ \E t \in Temps : CheckTemperature(t)
    \/ \E w \in ThermalSets : HttpSet(w.key, w.num, w.str, TRUE, 70)
    \/ HttpThermalClear
    \/ HttpActionServerStart
    \/ HttpActionServerStop
    \/ \E a \in BOOLEAN, t \in BootTemps : HttpActionResetI2S(a, t)
    \/ \E f \in BOOLEAN : HttpActionReboot(f)
    \/ \E t \in BootTemps : LoopDeferredReboot(t)
    \/ \E t \in BootTemps : CheckScheduledReset(t)
    \/ \E t \in BootTemps : PowerCycle(t)
    \/ LoopClientGone
    \/ LoopAccept
    \/ \E sid \in SessionIds : LoopProcessRTSP(sid, FALSE, 70)
    \/ \E n \in SampleCounts, f \in 0..1 : LoopStreamAudio(n, f, MaxPackets)
    \/ NetDisconnect
    \/ \E c \in PlayChunks : ClientSends(c, MaxRx)

Spec == Init /\ [][Next]_vars

(***************************************************************************)
(* SpecConfig: the audio settings written through /api/set, with restarts  *)
(* and the factory reset.                                                  *)
(***************************************************************************)
\* Writes through /api/set in the configuration model; 7999 and 4 are below
\* the accepted ranges.
ConfigSets ==
    {[key |-> "rate", num |-> 48000, str |-> ""],
     [key |-> "rate", num |-> 9435, str |-> ""],
     [key |-> "rate", num |-> 7999, str |-> ""],
     [key |-> "buffer", num |-> 1024, str |-> ""],
     [key |-> "buffer", num |-> 259, str |-> ""],
     [key |-> "thr_mode", num |-> 0, str |-> "auto"],
     [key |-> "thr_mode", num |-> 0, str |-> "manual"],
     [key |-> "min_rate", num |-> 100, str |-> ""],
     [key |-> "min_rate", num |-> 4, str |-> ""]}

InitConfig == InitWith(DefaultPrefs, 70)

NextConfig ==
    \/ \E w \in ConfigSets, a \in BOOLEAN : HttpSet(w.key, w.num, w.str, a, 70)
    \/ \E f \in BOOLEAN : HttpActionReboot(f)
    \/ LoopDeferredReboot(70)
    \/ PowerCycle(70)

SpecConfig == InitConfig /\ [][NextConfig]_vars

(***************************************************************************)
(* SpecRtp: a PLAYING session that has been streaming for a long time, so  *)
(* that the 16-bit sequence number and the 32-bit timestamp wrap.          *)
(***************************************************************************)
\* Packets of DEFAULT_BUFFER_SIZE samples sent since PLAY.
SessionPackets == {65536 * 64 - 2}

\* rtpTimestamp after k packets of 1024 samples: (k * 1024) mod 2^32.
PlayedTimestamp(k) == <<(k \div 64) % 65536, (k % 64) * 1024>>

\* The parse buffer after processRTSP has dispatched request req.
AfterRequest(buf, req) ==
    LET buf1 == WriteAt(buf, 0, req)
    IN  [buf1 EXCEPT ![StrStr(buf1) + 1] = 0]

\* The device after setup() on stored settings p, a client's SETUP and PLAY
\* and k packets of silence, ms milliseconds after the PLAY and up ticks
\* after the start.
InitPlayingAt(p, k, ms, up) ==
    \E s \in {SetupState(p, 70)} :
        /\ lastTemperatureC = s.lastTemperatureC
        /\ lastTemperatureValid = s.lastTemperatureValid
        /\ overheatProtectionEnabled = s.overheatProtectionEnabled
        /\ overheatShutdownC = s.overheatShutdownC
        /\ overheatLockoutActive = s.overheatLockoutActive
        /\ overheatTripTemp = s.overheatTripTemp
        /\ overheatTriggeredAt = s.overheatTriggeredAt
        /\ overheatLastReason = s.overheatLastReason
        /\ overheatLastTimestamp = s.overheatLastTimestamp
        /\ overheatSensorFault = s.overheatSensorFault
        /\ overheatLatched = s.overheatLatched
        /\ rtspServerEnabled = s.rtspServerEnabled
        /\ rtspClientOpen = TRUE
        /\ netUp = TRUE
        /\ isStreaming = TRUE
        /\ rtspSessionId = 100000000
        /\ rtpSequence = k % 65536
        /\ rtpTimestamp = PlayedTimestamp(k)
        /\ audioPacketsSent = k
        /\ i2s_32bit_buffer = (IF k = 0 THEN <<>> ELSE SilentBlock)
        /\ i2s_16bit_buffer = (IF k = 0 THEN <<>> ELSE SilentBlock)
        /\ audioClipCount = 0
        /\ audioClippedLastBlock = FALSE
        /\ sinceRTSPActivity = 0
        /\ sinceStatsReset = ms
        /\ uptimeTicks = up
        /\ rtspPeer = 0
        /\ backlog = <<>>
        /\ bufferCapacity = s.bufferCapacity
        /\ i2sInstalledFor = s.i2sInstalledFor
        /\ hpfConfigSampleRate = s.hpfConfig.rate
        /\ hpfConfigCutoff = s.hpfConfig.cutoff
        /\ rtspParseBuffer = AfterRequest(AfterRequest(<<>>, Req(S_SETUP, 49)),
                                          Req(S_PLAY, 50))
        /\ rtspParseBufferPos = 0
        /\ clientRx = <<>>
        /\ lastReply = [verb |-> "PLAY", cseq |-> <<50>>,
                        session |-> 100000000]
        /\ lastRtp = IF k = 0 THEN NoRtp
                     ELSE [inter |-> InterleavedHeader(DEFAULT_BUFFER_SIZE),
                           header |-> RtpHeader((k - 1) % 65536,
                                                PlayedTimestamp(k - 1)),
                           samples |-> DEFAULT_BUFFER_SIZE]
        /\ rtpWritten = IF k = 0 THEN NoWrites
                        ELSE [inter |-> 4, header |-> 12,
                              payload |-> 2 * DEFAULT_BUFFER_SIZE,
                              payloadSize |-> 2 * DEFAULT_BUFFER_SIZE]
        /\ currentSampleRate = s.currentSampleRate
        /\ currentBufferSize = s.currentBufferSize
        /\ autoThresholdEnabled = s.autoThresholdEnabled
        /\ minAcceptableRate = s.minAcceptableRate
        /\ scheduledResetEnabled = s.scheduledResetEnabled
        /\ currentGainFactor = s.currentGainFactor
        /\ i2sShiftBits = s.i2sShiftBits
        /\ highpassEnabled = s.highpassEnabled
        /\ highpassCutoffHz = s.highpassCutoffHz
        /\ autoRecoveryEnabled = s.autoRecoveryEnabled
        /\ resetIntervalHours = s.resetIntervalHours
        /\ performanceCheckInterval = s.performanceCheckInterval
        /\ cpuFrequencyMhz = s.cpuFrequencyMhz
        /\ wifiTxPowerDbm = s.wifiTxPowerDbm
        /\ currentWifiPowerLevel = s.currentWifiPowerLevel
        /\ txPowerWritten = s.txPowerWritten
        /\ prefs = s.prefs
        /\ scheduledFactoryReset = FALSE
        /\ scheduledRebootAt = <<0, 0>>
        /\ lastOp = IF k = 0 THEN "rtsp_PLAY" ELSE "streamAudio"
        /\ httpReply = "none"

\* The same right after the PLAY's statistics reset.
InitPlayingWith(p, k) == InitPlayingAt(p, k, 0, 0)

InitPlaying(k) == InitPlayingWith(DefaultPrefs, k)

\* Samples i2s_read delivers: a full buffer or part of one.
RtpSampleCounts == {1024, 512, 300}

InitRtp == \E k \in SessionPackets : InitPlaying(k)

NextRtp ==
    \/ \E k \in SessionPackets, n \in RtpSampleCounts, f \in 0..3 :
          LoopStreamAudio(n, f, k + WrapPackets)
    \/ NetDisconnect
    \/ LoopClientGone
    \/ LoopAccept
    \/ TimePasses(MaxIdleTicks)
    \/ LoopClientTimeout

SpecRtp == InitRtp /\ [][NextRtp]_vars

(***************************************************************************)
(* SpecRtsp: the RTSP requests of a client, whole requests at a time.      *)
(***************************************************************************)
RtspChunks ==
    {Req(S_SETUP, 49), Req(S_PLAY, 50), Req(S_TEARDOWN, 51),
     Req(S_GET_PARAMETER, 52)}

InitRtsp == InitWith(DefaultPrefs, 70)

NextRtsp ==
    \/ LoopAccept
    \/ \E c \in RtspChunks : ClientSends(c, MaxRxRtsp)
    \/ \E sid \in SessionIds : LoopProcessRTSP(sid, FALSE, 70)
    \/ \E n \in SampleCounts, f \in 0..1 : LoopStreamAudio(n, f, MaxPackets)
    \/ NetDisconnect
    \/ LoopClientGone
    \/ TimePasses(MaxIdleTicks)
    \/ LoopClientTimeout

SpecRtsp == InitRtsp /\ [][NextRtsp]_vars

(***************************************************************************)
(* SpecOverflow: the peer of a session that has just started to play     *)
(* sends bytes without a blank line until the parse buffer is full.        *)
(***************************************************************************)
\* n bytes 'A'
Filler(n) == [i \in 1..n |-> 65]

OverflowChunks == {Filler(341), Filler(1023)}

InitOverflow == InitPlaying(0)

NextOverflow ==
    \/ LoopAccept
    \/ \E c \in OverflowChunks : ClientSends(c, MaxRxOverflow)
    \/ \E sid \in SessionIds : LoopProcessRTSP(sid, FALSE, 70)
    \/ \E n \in SampleCounts, f \in 0..1 : LoopStreamAudio(n, f, MaxPackets)
    \/ NetDisconnect
    \/ LoopClientGone
    \/ TimePasses(MaxIdleTicks)
    \/ LoopClientTimeout

SpecOverflow == InitOverflow /\ [][NextOverflow]_vars

(***************************************************************************)
(* SpecSplit: a client that sends one request at a time and waits until   *)
(* the device has taken it; a request reaches the device whole, or in two  *)
(* TCP segments of 15 and 2 bytes.                                         *)
(***************************************************************************)
\* A whole PLAY request and the first 15 bytes of one.
SplitChunks == {Req(S_PLAY, 50), SubSeq(Req(S_PLAY, 51), 1, 15)}

\* The last 2 bytes of the request sent in two segments.
SplitRest == SubSeq(Req(S_PLAY, 51), 16, 17)

InitSplit == InitWith(DefaultPrefs, 70)

NextSplit ==
    \/ LoopAccept
    \/ /\ clientRx = <<>>
       /\ rtspParseBufferPos = 0
       /\ \E c \in SplitChunks : ClientSends(c, MaxRx)
    \/ /\ clientRx = <<>>
       /\ rtspParseBufferPos # 0
       /\ ClientSends(SplitRest, MaxRx)
    \/ \E sid \in SessionIds, crash \in BOOLEAN :
          LoopProcessRTSP(sid, crash, 70)
    \/ \E n \in SampleCounts, f \in 0..1 : LoopStreamAudio(n, f, MaxPackets)
    \/ NetDisconnect
    \/ LoopClientGone
    \/ TimePasses(MaxIdleTicks)
    \/ LoopClientTimeout

SpecSplit == InitSplit /\ [][NextSplit]_vars

(***************************************************************************)
(* Transmit-power runs: wifi_tx writes, the periodic health check, other   *)
(* settings writes and restarts.  Requests are single-precision values in  *)
(* units of 2^-24 dBm: -1.5, -1, 0.5, 0.5 + 2^-24, 2, 3.5, 8.5, 19.25,     *)
(* 19.5 and 20.                                                            *)
(***************************************************************************)
WifiRequests ==
    {-25165824, -16777216, 8388608, 8388609, 33554432, 58720256, 142606336,
     322961408, 327155712, 335544320}

WifiOtherSets ==
    {[key |-> "auto_recovery", num |-> 0, str |-> "off"],
     [key |-> "auto_recovery", num |-> 0, str |-> "on"]}

InitWifi == InitWith(DefaultPrefs, 70)

NextWifi ==
    \/ \E v \in WifiRequests : HttpSet("wifi_tx", v, "", TRUE, 70)
    \/ \E w \in WifiOtherSets : HttpSet(w.key, w.num, w.str, TRUE, 70)
    \/ CheckWiFiHealth
    \/ \E f \in BOOLEAN : HttpActionReboot(f)
    \/ LoopDeferredReboot(70)
    \/ PowerCycle(70)

SpecWifi == InitWifi /\ [][NextWifi]_vars

(***************************************************************************)
(* Settings runs: every range-checked key of httpSet with a value inside   *)
(* its range, values just outside it, and values of more than 16 (buffer)  *)
(* or 8 (shift) bits.  The gain is in thousandths, wifi_tx in 2^-24 dBm.   *)
(***************************************************************************)
SettingsSets ==
    {[key |-> "gain", num |-> 2500, str |-> ""],
     [key |-> "gain", num |-> 99, str |-> ""],
     [key |-> "gain", num |-> 100001, str |-> ""],
     [key |-> "rate", num |-> 16000, str |-> ""],
     [key |-> "rate", num |-> 7999, str |-> ""],
     [key |-> "rate", num |-> 96001, str |-> ""],
     [key |-> "buffer", num |-> 512, str |-> ""],
     [key |-> "buffer", num |-> 255, str |-> ""],
     [key |-> "buffer", num |-> 8193, str |-> ""],
     [key |-> "buffer", num |-> 66560, str |-> ""],
     [key |-> "shift", num |-> 14, str |-> ""],
     [key |-> "shift", num |-> 25, str |-> ""],
     [key |-> "shift", num |-> 270, str |-> ""],
     [key |-> "wifi_tx", num |-> 327155712, str |-> ""],
     [key |-> "wifi_tx", num |-> -25165824, str |-> ""],
     [key |-> "wifi_tx", num |-> 335544320, str |-> ""],
     [key |-> "min_rate", num |-> 33, str |-> ""],
     [key |-> "min_rate", num |-> 4, str |-> ""],
     [key |-> "min_rate", num |-> 201, str |-> ""],
     [key |-> "check_interval", num |-> 15, str |-> ""],
     [key |-> "check_interval", num |-> 0, str |-> ""],
     [key |-> "check_interval", num |-> 61, str |-> ""],
     [key |-> "reset_hours", num |-> 24, str |-> ""],
     [key |-> "reset_hours", num |-> 0, str |-> ""],
     [key |-> "reset_hours", num |-> 169, str |-> ""],
     [key |-> "cpu_freq", num |-> 160, str |-> ""],
     [key |-> "cpu_freq", num |-> 39, str |-> ""],
     [key |-> "cpu_freq", num |-> 161, str |-> ""],
     [key |-> "hp_cutoff", num |-> 300, str |-> ""],
     [key |-> "hp_cutoff", num |-> 9, str |-> ""],
     [key |-> "hp_cutoff", num |-> 10001, str |-> ""],
     [key |-> "hp_enable", num |-> 0, str |-> "off"],
     [key |-> "oh_limit", num |-> 80, str |-> ""],
     [key |-> "oh_limit", num |-> 29, str |-> ""],
     [key |-> "oh_limit", num |-> 96, str |-> ""]}

InitSettings == InitPlaying(0)

NextSettings ==
    \/ \E w \in SettingsSets, a \in BOOLEAN :
           HttpSet(w.key, w.num, w.str, a, 70)
    \/ \E f \in BOOLEAN : HttpActionReboot(f)
    \/ LoopDeferredReboot(70)
    \/ PowerCycle(70)

SpecSettings == InitSettings /\ [][NextSettings]_vars

(***************************************************************************)
(* Limit runs: oh_limit writes on and off the 5-degree grid and outside    *)
(* the range, temperature samples and restarts, on a store whose ohThresh  *)
(* is any unsigned value (one that other firmware may have left).          *)
(***************************************************************************)
StoredLimits == {0, 29, 30, 52, DEFAULT_OVERHEAT_LIMIT_C, 95, 96, 200}

LimitSets ==
    {[key |-> "oh_limit", num |-> n, str |-> ""] :
        n \in {29, 30, 34, 47, 94, 95, 96}}

InitLimit ==
    \E t \in StoredLimits : InitWith([DefaultPrefs EXCEPT !.ohThresh = t], 70)

NextLimit ==
    \/ \E w \in LimitSets : HttpSet(w.key, w.num, w.str, TRUE, 70)
    \/ \E t \in Temps : CheckTemperature(t)
    \/ HttpThermalClear
    \/ \E f \in BOOLEAN : HttpActionReboot(f)
    \/ LoopDeferredReboot(70)
    \/ PowerCycle(70)

SpecLimit == InitLimit /\ [][NextLimit]_vars

(***************************************************************************)
(* Idle runs: one tick of the clock at a time, clients that connect, send  *)
(* PLAY or TEARDOWN, fall silent or go away.  The loop runs its timeout    *)
(* check again and again, so the check is weakly fair.                     *)
(***************************************************************************)
IdleChunks == {Req(S_PLAY, 50), Req(S_TEARDOWN, 51)}

InitIdle == InitWith(DefaultPrefs, 70)

NextIdle ==
    \/ LoopAccept
    \/ \E c \in IdleChunks : ClientSends(c, MaxRxRtsp)
    \/ \E sid \in SessionIds : LoopProcessRTSP(sid, FALSE, 70)
    \/ \E n \in SampleCounts, f \in 0..1 : LoopStreamAudio(n, f, MaxPackets)
    \/ NetDisconnect
    \/ LoopClientGone
    \/ TimePasses(1)
    \/ LoopClientTimeout

SpecIdle == InitIdle /\ [][NextIdle]_vars /\ WF_vars(LoopClientTimeout)

(***************************************************************************)
(* Clipping runs: a playing client, the high-pass filter switched off, the *)
(* gains 0.1, 1.2 and 100 and the default shift of 12 bits.  The raw       *)
(* samples are 4096 times 27305 (1.2 times it is below 32767), 27306 (just *)
(* above), -27306 (magnitude between 32767 and 32768) and -27307 (below    *)
(* -32768).                                                                *)
(***************************************************************************)
MaxBlocks == 2
MaxBlockLen == 2

ClipGains == {100, DEFAULT_GAIN_FACTOR, 100000}

RawSamples ==
    {111841280, 111845376, -111845376, -111849472}

ClipBlocks ==
    UNION {[1..n -> RawSamples] : n \in 1..MaxBlockLen}

InitClip ==
    \E g \in ClipGains :
        InitPlayingWith([DefaultPrefs EXCEPT !.gainFactor = g,
                                             !.hpEnable = FALSE], 0)

NextClip ==
    \/ \E b \in ClipBlocks, f \in 0..1 :
           LoopStreamAudioBlock(b, Len(b), f, MaxBlocks)
    \/ NetDisconnect
    \/ LoopClientGone

SpecClip == InitClip /\ [][NextClip]_vars

(***************************************************************************)
(* Audio-settings runs: the writes of SettingsSets to the audio keys, and  *)
(* restarts.                                                               *)
(***************************************************************************)
AudioKeys == {"rate", "gain", "buffer", "shift", "hp_enable", "hp_cutoff"}

AudioSets ==
    {w \in SettingsSets : w.key \in AudioKeys}
        \cup {[key |-> "hp_enable", num |-> 0, str |-> "on"]}

InitAudio == InitWith(DefaultPrefs, 70)

NextAudio ==
    \/ \E w \in AudioSets, a \in BOOLEAN : HttpSet(w.key, w.num, w.str, a, 70)
    \/ \E f \in BOOLEAN : HttpActionReboot(f)
    \/ LoopDeferredReboot(70)
    \/ PowerCycle(70)

SpecAudio == InitAudio /\ [][NextAudio]_vars


(***************************************************************************)
(* Runs for transport faults: a playing session whose writes of a media    *)
(* packet succeed, fall short and are completed, or fail, on each of the   *)
(* three segments; the client may send PLAY again or go away.              *)
(***************************************************************************)
\* What the writes of one segment return: all at once, a failure, a short
\* write that is completed, a short write followed by a failure.
SegmentWrites == {<<>>, <<0>>, <<2>>, <<2, 0 - 1>>}

\* The writes of a packet: at most one segment is not written at once.
FaultWrites ==
    {w \in [1..3 -> SegmentWrites] :
        \E i \in 1..3 : \A j \in (1..3) \ {i} : w[j] = <<>>}

FaultSampleCounts == {256}

FaultChunks == {Req(S_PLAY, 51)}

InitFault == InitPlaying(0)

NextFault ==
    \/ \E n \in FaultSampleCounts, w \in FaultWrites :
          LoopStreamAudioWrites(SilentBlock, n, w, WrapPackets)
    \/ \E c \in FaultChunks : ClientSends(c, MaxRxRtsp)
    \/ LoopProcessRTSP(100000000, FALSE, 70)
    \/ NetDisconnect
    \/ LoopClientGone
    \/ LoopAccept

SpecFault == InitFault /\ [][NextFault]_vars

(***************************************************************************)
(* Runs with two peers: each may connect at any time and waits until the   *)
(* loop accepts it; the accepted one sends PLAY, is streamed to, leaves or *)
(* is dropped after the idle timeout.                                      *)
(***************************************************************************)
Peers == {1, 2}

InitClients == InitWith(DefaultPrefs, 70)

NextClients ==
    \/ \E c \in Peers : ClientConnects(c, MaxWaiting)
    \/ LoopAccept
    \/ \E c \in PlayChunks : ClientSends(c, MaxRx)
    \/ \E sid \in SessionIds : LoopProcessRTSP(sid, FALSE, 70)
    \/ \E n \in SampleCounts, f \in 0..1 : LoopStreamAudio(n, f, MaxPackets)
    \/ NetDisconnect
    \/ LoopClientGone
    \/ TimePasses(MaxIdleTicks)
    \/ LoopClientTimeout

SpecClients == InitClients /\ [][NextClients]_vars

(***************************************************************************)
(* Runs for the capture pipeline: writes to the sample rate, the buffer    *)
(* size and the shift (accepted, refused, with a failed allocation), the   *)
(* manual pipeline reset, factory reset and restarts, around a client that *)
(* asks to play and is streamed to.                                        *)
(***************************************************************************)
I2SSets ==
    {[key |-> "rate", num |-> 16000, str |-> ""],
     [key |-> "rate", num |-> 7000, str |-> ""],
     [key |-> "buffer", num |-> 256, str |-> ""],
     [key |-> "buffer", num |-> 100, str |-> ""],
     [key |-> "shift", num |-> 14, str |-> ""],
     [key |-> "shift", num |-> 30, str |-> ""]}

I2SSampleCounts == {256, DEFAULT_BUFFER_SIZE}

InitI2S == InitPlaying(0)

NextI2S ==
    \/ \E w \in I2SSets, a \in BOOLEAN : HttpSet(w.key, w.num, w.str, a, 70)
    \/ \E a \in BOOLEAN : HttpActionResetI2S(a, 70)
    \/ HttpActionReboot(TRUE)
    \/ LoopDeferredReboot(70)
    \/ PowerCycle(70)
    \/ LoopAccept
    \/ \E c \in PlayChunks : ClientSends(c, MaxRx)
    \/ \E sid \in SessionIds : LoopProcessRTSP(sid, FALSE, 70)
    \/ \E n \in I2SSampleCounts :
          n <= currentBufferSize /\ LoopStreamAudio(n, 0, MaxPackets)

SpecI2S == InitI2S /\ [][NextI2S]_vars

(***************************************************************************)
(* Runs for the performance check: sessions of various ages (a fresh one,  *)
(* one 40 s old at the nominal 46.875 packets/s, one 40 s old at 25        *)
(* packets/s, and two that have streamed at the nominal rate for a little  *)
(* over 25 hours), the periodic check with and without a failed            *)
(* allocation, time, packets, PLAY requests and writes to the recovery     *)
(* settings.                                                               *)
(***************************************************************************)
\* Time is followed for this long after the device's start.
PerfHorizonMs == 100000

PerfSessions ==
    {[sent |-> 0, ms |-> 0],
     [sent |-> 1875, ms |-> 40000],
     [sent |-> 1000, ms |-> 40000],
     [sent |-> 4294687, ms |-> 91620000],
     [sent |-> 4295156, ms |-> 91630000]}

PerfSets ==
    {[key |-> "auto_recovery", num |-> 0, str |-> "off"],
     [key |-> "auto_recovery", num |-> 0, str |-> "on"],
     [key |-> "min_rate", num |-> 20, str |-> ""]}

InitPerf ==
    \E s \in PerfSessions :
        InitPlayingAt(DefaultPrefs, s.sent, s.ms, s.ms \div TICK_MS)

NextPerf ==
    \/ \E a \in BOOLEAN : CheckPerformance(a, 70)
    \/ /\ (uptimeTicks + 1) * TICK_MS <= PerfHorizonMs
       /\ TimePassesUntil(1, PerfHorizonMs)
    \/ LoopStreamAudio(DEFAULT_BUFFER_SIZE, 0, MaxPackets)
    \/ \E c \in PlayChunks : ClientSends(c, MaxRx)
    \/ \E sid \in SessionIds : LoopProcessRTSP(sid, FALSE, 70)
    \/ \E w \in PerfSets : HttpSet(w.key, w.num, w.str, TRUE, 70)

SpecPerf == InitPerf /\ [][NextPerf]_vars

(***************************************************************************)
(* Runs for the temperature samples: readings around the plausible range   *)
(* and around the limit and the re-arming threshold, writes that switch    *)
(* protection and move the limit, the acknowledgement, server_start and    *)
(* restarts into a working or a failed sensor.                             *)
(***************************************************************************)
GuardTemps == {0 - 21, 0 - 20, 70, 75, 76, 79, 80, 130, 131}

GuardSets ==
    {[key |-> "oh_enable", num |-> 0, str |-> "on"],
     [key |-> "oh_enable", num |-> 0, str |-> "off"],
     [key |-> "oh_limit", num |-> 84, str |-> ""]}

InitGuard == InitWith(DefaultPrefs, 70)

NextGuard ==
    \/ \E t \in GuardTemps : CheckTemperature(t)
    \/ \E w \in GuardSets : HttpSet(w.key, w.num, w.str, TRUE, 70)
    \/ HttpThermalClear
    \/ HttpActionServerStart
    \/ \E t \in BootTemps : PowerCycle(t)

SpecGuard == InitGuard /\ [][NextGuard]_vars

(***************************************************************************)
(* Runs for the scheduled restart: a device that streams to a client, hours *)
(* that pass up to a little over 2^32 ms of uptime, the check of every     *)
(* loop iteration, and writes that switch the scheduled restart on and off.*)
(***************************************************************************)
TicksPerHour == HOUR_MS \div TICK_MS

\* The uptime is followed for this many ticks (1195 hours).
SchedHorizonTicks == 430200

SchedSets ==
    {[key |-> "sched_reset", num |-> 0, str |-> "on"],
     [key |-> "sched_reset", num |-> 0, str |-> "off"],
     [key |-> "reset_hours", num |-> 1, str |-> ""]}

InitSched == InitPlaying(0)

NextSched ==
    \/ CheckScheduledResetAt(UptimeHours(uptimeTicks), 70)
    \/ /\ uptimeTicks + TicksPerHour <= SchedHorizonTicks
       /\ Elapse(TicksPerHour, MaxIdleTicks * TICK_MS, SchedHorizonTicks)
    \/ \E w \in SchedSets : HttpSet(w.key, w.num, w.str, TRUE, 70)
    \/ LoopStreamAudio(DEFAULT_BUFFER_SIZE, 0, MaxPackets)
    \/ LoopAccept

SpecSched == InitSched /\ [][NextSched]_vars

(***************************************************************************)
(* Runs for the request verbs: a session that plays, and a peer that sends *)
(* one whole request at a time: a keep-alive, a TEARDOWN, a PLAY, and      *)
(* requests with the verbs PAUSE and PLAY_NOTIFY.                          *)
(***************************************************************************)
S_PAUSE == <<80, 65, 85, 83, 69>>
S_PLAY_NOTIFY == S_PLAY \o <<95, 78, 79, 84, 73, 70, 89>>

VerbChunks ==
    {Req(S_GET_PARAMETER, 52), Req(S_TEARDOWN, 51), Req(S_PLAY, 53),
     Req(S_PAUSE, 54), Req(S_PLAY_NOTIFY, 55)}

InitVerb == InitPlaying(0)

NextVerb ==
    \/ LoopAccept
    \/ /\ clientRx = <<>>
       /\ rtspParseBufferPos = 0
       /\ \E c \in VerbChunks : ClientSends(c, MaxRxRtsp)
    \/ \E sid \in SessionIds : LoopProcessRTSP(sid, FALSE, 70)
    \/ \E n \in SampleCounts : LoopStreamAudio(n, 0, MaxPackets)
    \/ NetDisconnect
    \/ LoopClientGone

SpecVerb == InitVerb /\ [][NextVerb]_vars

(***************************************************************************)
(* Runs for requests sent back to back: a session that plays, and a peer   *)
(* that sends a keep-alive, a keep-alive and a TEARDOWN in one segment, or *)
(* a keep-alive with the first bytes of a TEARDOWN and then the rest.      *)
(***************************************************************************)
PipeChunks ==
    {Req(S_GET_PARAMETER, 52),
     Req(S_GET_PARAMETER, 53) \o Req(S_TEARDOWN, 54),
     Req(S_GET_PARAMETER, 55) \o SubSeq(Req(S_TEARDOWN, 56), 1, 6)}

PipeRest == SubSeq(Req(S_TEARDOWN, 56), 7, Len(Req(S_TEARDOWN, 56)))

InitPipe == InitPlaying(0)

NextPipe ==
    \/ LoopAccept
    \/ /\ clientRx = <<>>
       /\ rtspParseBufferPos = 0
       /\ \E c \in PipeChunks : ClientSends(c, MaxRxPipe)
    \/ /\ clientRx = <<>>
       /\ rtspParseBufferPos = 6
       /\ ClientSends(PipeRest, MaxRxPipe)
    \/ \E sid \in SessionIds : LoopProcessRTSP(sid, FALSE, 70)
    \/ \E n \in SampleCounts : LoopStreamAudio(n, 0, MaxPackets)
    \/ NetDisconnect
    \/ LoopClientGone
    \/ TimePasses(MaxIdleTicks)
    \/ LoopClientTimeout

SpecPipe == InitPipe /\ [][NextPipe]_vars

\* processRTSP has bytes to read: the guard of LoopProcessRTSP.
ProcessPossible == rtspServerEnabled /\ Connected /\ clientRx # <<>>

\* The main loop keeps running and time passes: weak fairness of the
\* processRTSP step, with its enabling condition written out, of the idle
\* timeout and of the clock.  The peer is free to stay silent.
SpecPipeLive ==
    /\ InitPipe /\ [][NextPipe]_vars
    /\ WF_vars(TimePasses(MaxIdleTicks))
    /\ WF_vars(LoopClientTimeout)
    /\ \/ []<>(~ProcessPossible)
       \/ []<><<\E sid \in SessionIds : LoopProcessRTSP(sid, FALSE, 70)>>_vars

(***************************************************************************)
(* Runs for the filter coefficients: a session that plays, writes to the   *)
(* sample rate, the cutoff and the filter switch, PLAY requests after the  *)
(* pipeline restarts, and blocks of audio.                                 *)
(***************************************************************************)
HpfSets ==
    {[key |-> "rate", num |-> 16000, str |-> ""],
     [key |-> "rate", num |-> 96000, str |-> ""],
     [key |-> "hp_cutoff", num |-> 10, str |-> ""],
     [key |-> "hp_cutoff", num |-> 7200, str |-> ""],
     [key |-> "hp_cutoff", num |-> 8000, str |-> ""],
     [key |-> "hp_cutoff", num |-> 10000, str |-> ""],
     [key |-> "hp_enable", num |-> 0, str |-> "off"],
     [key |-> "hp_enable", num |-> 0, str |-> "on"]}

InitHpf == InitPlaying(0)

NextHpf ==
    \/ \E w \in HpfSets : HttpSet(w.key, w.num, w.str, TRUE, 70)
    \/ \E c \in PlayChunks : ClientSends(c, MaxRx)
    \/ \E sid \in SessionIds : LoopProcessRTSP(sid, FALSE, 70)
    \/ \E n \in SampleCounts : LoopStreamAudio(n, 0, MaxPackets)

SpecHpf == InitHpf /\ [][NextHpf]_vars

(***************************************************************************)
(* Runs for the deferred restart: a session that plays, early in the       *)
(* uptime or in the tick before millis() wraps, writes to the settings,    *)
(* requests for a reboot and for a factory reset, and the loop iteration   *)
(* that carries them out.                                                  *)
(***************************************************************************)
\* Ticks after the start at which the runs begin.
RebootUptimes == {0, 429496}

\* bootTime plus the part of the tick that has passed, in milliseconds.
RebootOffsets == {0, 6696}

RebootSets ==
    {[key |-> "gain", num |-> 2000, str |-> ""],
     [key |-> "sched_reset", num |-> 0, str |-> "on"],
     [key |-> "hp_cutoff", num |-> 300, str |-> ""],
     [key |-> "oh_limit", num |-> 60, str |-> ""],
     [key |-> "thr_mode", num |-> 0, str |-> "manual"]}

InitReboot == \E up \in RebootUptimes : InitPlayingAt(DefaultPrefs, 0, 0, up)

RebootPending == scheduledRebootAt # <<0, 0>>

NextReboot ==
    \/ \E f \in BOOLEAN, ms \in RebootOffsets : HttpActionRebootAt(f, ms)
    \/ LoopDeferredReboot(70)
    \/ \E w \in RebootSets : HttpSet(w.key, w.num, w.str, TRUE, 70)
    \/ LoopStreamAudio(DEFAULT_BUFFER_SIZE, 0, MaxPackets)
    \/ TimePasses(1)

SpecReboot == InitReboot /\ [][NextReboot]_vars

\* Time passes and the loop keeps running: a reboot that is pending is
\* carried out (weak fairness of LoopDeferredReboot, written out).
SpecRebootLive ==
    /\ SpecReboot
    /\ WF_vars(TimePasses(1))
    /\ ([]<>(~RebootPending) \/ []<><<LoopDeferredReboot(70)>>_vars)

(***************************************************************************)
(* Runs for the restarts of the capture pipeline: sessions that play (a    *)
(* fresh one and two that are 40 s old, at the nominal rate and below it), *)
(* the setters that restart the pipeline and one that does not, the        *)
(* reset_i2s action, the periodic performance check, time, packets and     *)
(* PLAY requests.                                                          *)
(***************************************************************************)
RestartSessions ==
    {[sent |-> 0, ms |-> 0],
     [sent |-> 1875, ms |-> 40000],
     [sent |-> 1000, ms |-> 40000]}

\* Accepted writes to the four settings that restart the pipeline.
RestartSets ==
    {[key |-> "gain", num |-> 2000, str |-> ""],
     [key |-> "rate", num |-> 16000, str |-> ""],
     [key |-> "buffer", num |-> 512, str |-> ""],
     [key |-> "shift", num |-> 14, str |-> ""]}

OtherSets ==
    {[key |-> "min_rate", num |-> 20, str |-> ""],
     [key |-> "rate", num |-> 7000, str |-> ""]}

InitRestart ==
    \E s \in RestartSessions :
        InitPlayingAt(DefaultPrefs, s.sent, s.ms, s.ms \div TICK_MS)

NextRestart ==
    \/ \E w \in RestartSets \cup OtherSets, a \in BOOLEAN :
          HttpSet(w.key, w.num, w.str, a, 70)
    \/ \E a \in BOOLEAN : HttpActionResetI2S(a, 70)
    \/ \E a \in BOOLEAN : CheckPerformance(a, 70)
    \/ LoopAccept
    \/ \E c \in PlayChunks : ClientSends(c, MaxRx)
    \/ \E sid \in SessionIds : LoopProcessRTSP(sid, FALSE, 70)
    \/ \E n \in {512} : LoopStreamAudio(n, 0, MaxPackets)

SpecRestart == InitRestart /\ [][NextRestart]_vars

(***************************************************************************)
(* Runs for the lockout and the latch: temperature samples (readings       *)
(* around the limit and the re-arming threshold, and readings of a failed  *)
(* sensor), the acknowledgement, server_start and server_stop, writes to   *)
(* oh_enable and oh_limit, reboot and factory reset, and power cycles into *)
(* a working or a failed sensor.                                           *)
(***************************************************************************)
InitLatch == InitWith(DefaultPrefs, 70)

NextLatch ==
    \/ \E t \in GuardTemps : CheckTemperature(t)
    \/ \E w \in GuardSets : HttpSet(w.key, w.num, w.str, TRUE, 70)
    \/ HttpThermalClear
    \/ HttpActionServerStart
    \/ HttpActionServerStop
    \/ \E f \in BOOLEAN : HttpActionReboot(f)
    \/ \E t \in BootTemps : LoopDeferredReboot(t)
    \/ \E t \in BootTemps : PowerCycle(t)

SpecLatch == InitLatch /\ [][NextLatch]_vars

(***************************************************************************)
(* Properties of the thermal guard (checked under Spec)                    *)
(***************************************************************************)
\* C1: whenever the persisted latch overheatLatched is set, serving is
\* disabled, whatever overheatLockoutActive and overheatProtectionEnabled
\* are; a server_start issued in such a state is refused and leaves serving
\* disabled.
C1_LatchForcesServingOff ==
    /\ overheatLatched => ~rtspServerEnabled
    /\ (lastOp = "server_start" /\ overheatLatched)
           => (httpReply = "thermal_latched" /\ ~rtspServerEnabled)

\* C1 witness: server_start was issued on a latched device whose transient
\* lockout is clear and whose protection is switched off.
C1_Witness ==
    /\ overheatLatched
    /\ lastOp = "server_start"
    /\ ~overheatLockoutActive
    /\ ~overheatProtectionEnabled

C3_HotSampleDisablesServing ==
    (/\ lastOp = "checkTemperature"
     /\ lastTemperatureValid
     /\ overheatProtectionEnabled
     /\ lastTemperatureC >= overheatShutdownC)
        => (/\ overheatLatched
            /\ ~rtspServerEnabled
            /\ ~isStreaming
            /\ ~Connected)

\* C3 witness: a hot sample taken while the transient lockout of an earlier
\* trip (at another temperature) was already active.
C3_Witness ==
    /\ lastOp = "checkTemperature"
    /\ lastTemperatureValid
    /\ overheatProtectionEnabled
    /\ lastTemperatureC >= overheatShutdownC
    /\ overheatLockoutActive
    /\ overheatTripTemp # lastTemperatureC

\* A step that ended in a device restart without a factory reset.
PlainRestart ==
    \/ lastOp \in {"power_cycle", "deferred_reboot", "scheduled_reset"}
    \/ (lastOp = "reset_i2s" /\ httpReply = "none")

\* C4: the stored latch always equals the latch in RAM, a restart boots with
\* the latch it had before, and a device booted with the latch set does not
\* serve.
C4_LatchSurvivesRestart ==
    /\ [](prefs.ohLatched = overheatLatched)
    /\ [][PlainRestart' => (/\ overheatLatched' = overheatLatched
                            /\ (overheatLatched' => ~rtspServerEnabled'))]_vars

\* C4 witness: the device has restarted after an allocation failure with the
\* latch set.
C4_Witness ==
    /\ lastOp = "reset_i2s" /\ httpReply = "none"
    /\ overheatLatched
    /\ ~rtspServerEnabled

\* C5: the acknowledgement on a latched device clears the latch, the
\* lockout and the trip temperature and timestamp, enables serving and
\* stores the result; on a device that is not latched it changes nothing
\* and answers ok:false.
C5_Acknowledgement ==
    [][lastOp' = "thermal_clear"
         => IF overheatLatched
            THEN /\ ~overheatLatched'
                 /\ ~overheatLockoutActive'
                 /\ overheatTripTemp' = 0
                 /\ overheatTriggeredAt' = 0
                 /\ overheatLastTimestamp' = ""
                 /\ rtspServerEnabled'
                 /\ prefs'.ohLatched = FALSE
                 /\ prefs'.ohTripC = 0
                 /\ prefs'.ohStamp = ""
                 /\ httpReply' = "ok"
            ELSE /\ UNCHANGED progVars
                 /\ httpReply' = "fail"]_vars

\* C5 witness: an acknowledgement succeeded after a trip recorded at 82.
C5_Witness ==
    /\ lastOp = "thermal_clear"
    /\ httpReply = "ok"
    /\ rtspServerEnabled
    /\ ~overheatLatched
    /\ lastTemperatureC = 82


(***************************************************************************)
(* Properties of the packet-rate threshold (checked under SpecConfig)      *)
(***************************************************************************)
\* C6: whenever autoThresholdEnabled is true, minAcceptableRate equals
\* computeRecommendedMinRate of the current sample rate and buffer size; a
\* manual min_rate write in auto mode does not change it.
C6_Original ==
    autoThresholdEnabled
        => minAcceptableRate = computeRecommendedMinRate(currentSampleRate,
                                                         currentBufferSize)

\* max(5, round(0.7 * rate / bufSize)) in exact arithmetic, halves upwards.
RoundedMinRate(rate, bufSize) ==
    Max(5, (7 * rate + 5 * bufSize) \div (10 * bufSize))

\* C7: a setter call that changes the sample rate or the buffer size in auto
\* mode leaves minAcceptableRate at max(5, round(0.7 * rate / buffer)) and
\* stores that value.
C7_Original ==
    [][(/\ lastOp' = "set"
        /\ httpReply' = "ok"
        /\ autoThresholdEnabled
        /\ autoThresholdEnabled'
        /\ <<currentSampleRate', currentBufferSize'>>
              # <<currentSampleRate, currentBufferSize>>)
          => (/\ minAcceptableRate' = RoundedMinRate(currentSampleRate',
                                                     currentBufferSize')
              /\ prefs'.minRate = minAcceptableRate')]_vars

(***************************************************************************)
(* Properties of the packetizer (checked under SpecRtp)                    *)
(***************************************************************************)
\* C8: a packet that is fully written carries the sequence number and the
\* timestamp held before the step, after which the sequence number is one
\* higher modulo 65536 and the timestamp higher by the packet's sample count
\* modulo 2^32; a packet that is not fully written changes neither.
C8_SequenceAndTimestampAdvance ==
    [][lastOp' = "streamAudio"
         => IF isStreaming'
            THEN /\ lastRtp'.header = RtpHeader(rtpSequence, rtpTimestamp)
                 /\ rtpSequence' = IF rtpSequence = 65535 THEN 0
                                   ELSE rtpSequence + 1
                 /\ rtpSequence' \in 0..65535
                 /\ IF rtpTimestamp'[2] >= rtpTimestamp[2]
                    THEN /\ rtpTimestamp'[1] = rtpTimestamp[1]
                         /\ rtpTimestamp'[2] - rtpTimestamp[2]
                               = lastRtp'.samples
                    ELSE /\ rtpTimestamp'[1] =
                               IF rtpTimestamp[1] = 65535 THEN 0
                               ELSE rtpTimestamp[1] + 1
                         /\ rtpTimestamp'[2] + 65536 - rtpTimestamp[2]
                               = lastRtp'.samples
            ELSE /\ rtpSequence' = rtpSequence
                 /\ rtpTimestamp' = rtpTimestamp
                 /\ audioPacketsSent' = audioPacketsSent]_vars

\* C8 witness: the packet with sequence number 65535 and timestamp
\* 2^32 - 1024 has been sent and both counters have wrapped to 0.
C8_Witness ==
    /\ lastOp = "streamAudio"
    /\ isStreaming
    /\ lastRtp.header = <<128, 96, 255, 255, 255, 255, 252, 0>>
    /\ lastRtp.samples = 1024
    /\ rtpSequence = 0
    /\ rtpTimestamp = <<0, 0>>

(***************************************************************************)
(* Properties of the RTSP requests (checked under SpecRtsp)                *)
(***************************************************************************)
\* C9: PLAY sets sequence number, timestamp and packet counter to 0 and
\* starts streaming, also while streaming; TEARDOWN stops streaming; a
\* GET_PARAMETER received while streaming is acknowledged and changes
\* neither the sequence number, the timestamp, the session identifier nor
\* the streaming flag.
C9_PlayTeardownGetParameter ==
    [][/\ lastOp' = "rtsp_PLAY"
            => (/\ isStreaming'
                /\ rtpSequence' = 0
                /\ rtpTimestamp' = <<0, 0>>
                /\ audioPacketsSent' = 0)
       /\ lastOp' = "rtsp_TEARDOWN" => ~isStreaming'
       /\ (lastOp' = "rtsp_GET_PARAMETER" /\ isStreaming)
            => (/\ lastReply'.verb = "GET_PARAMETER"
                /\ UNCHANGED <<rtpSequence, rtpTimestamp, rtspSessionId,
                               isStreaming>>)]_vars

\* C9 witness: a PLAY was handled in a session that had already sent a
\* packet, and the counters are 0 again.
C9_Witness ==
    /\ lastOp = "rtsp_PLAY"
    /\ lastRtp.samples > 0
    /\ isStreaming
    /\ rtpSequence = 0
    /\ rtpTimestamp = <<0, 0>>
    /\ audioPacketsSent = 0

(***************************************************************************)
(* Properties of the parse buffer (checked under SpecOverflow)             *)
(***************************************************************************)
\* The values lastOp takes in a processRTSP step.
ProcessRtspOps ==
    {"rtsp_overflow", "rtsp_accumulate", "rtsp_crash", "rtsp_OPTIONS",
     "rtsp_DESCRIBE", "rtsp_SETUP", "rtsp_PLAY", "rtsp_TEARDOWN",
     "rtsp_GET_PARAMETER", "rtsp_other"}

C11_Original ==
    /\ rtspParseBufferPos >= 0
    /\ rtspParseBufferPos <= PARSE_BUFFER_SIZE - 1
    /\ lastOp # "rtsp_crash"

(***************************************************************************)
(* C12: applying the transmit power is idempotent.  A health check never   *)
(* calls WiFi.setTxPower, a wifi_tx write that leaves the requested value  *)
(* as it was never calls it, and no application calls it when the level of *)
(* the request is the level already applied.                               *)
(***************************************************************************)
C12_TxPowerIdempotent ==
    [][/\ lastOp' = "wifi_health" => ~txPowerWritten'
       /\ (lastOp' = "set_wifi_tx" /\ wifiTxPowerDbm' = wifiTxPowerDbm)
              => ~txPowerWritten'
       /\ (/\ lastOp' \in {"wifi_health", "set_wifi_tx"}
           /\ pickWifiPowerLevel(wifiTxPowerDbm') = currentWifiPowerLevel)
              => ~txPowerWritten']_vars

\* A health check ran after the power had been set to 2 dBm.
C12_Witness ==
    /\ lastOp = "wifi_health"
    /\ wifiTxPowerDbm = WifiSteps[2]
    /\ currentWifiPowerLevel = WifiSteps[2]
    /\ ~txPowerWritten

(***************************************************************************)
(* C13: every request within [-1, 19.5] written through wifi_tx is stored  *)
(* and applied as the table entry nearest to it, the earlier entry on a    *)
(* tie.                                                                    *)
(***************************************************************************)
\* The entry nearest to dbm in exact arithmetic, the earlier one on a tie.
NearestWifiStep(dbm) ==
    WifiSteps[CHOOSE i \in 1..Len(WifiSteps) :
                 \A j \in 1..Len(WifiSteps) :
                     \/ Abs(dbm - WifiSteps[i]) < Abs(dbm - WifiSteps[j])
                     \/ /\ Abs(dbm - WifiSteps[i]) = Abs(dbm - WifiSteps[j])
                        /\ i <= j]

C13_Original ==
    [][\A v \in WifiRequests :
          (/\ InRange(v, WifiSteps[1], WifiSteps[12])
           /\ HttpSet("wifi_tx", v, "", TRUE, 70))
          => /\ wifiTxPowerDbm' = NearestWifiStep(v)
             /\ currentWifiPowerLevel' = NearestWifiStep(v)
             /\ prefs'.wifiTxDbm = NearestWifiStep(v)]_vars

(***************************************************************************)
(* C14: an audio setting accepted by its setter (sample rate, gain, buffer *)
(* size, bit shift, high-pass switch and cutoff) is in the store after the *)
(* write, and a restart loads exactly the stored values.                   *)
(***************************************************************************)
\* The audio fields of a settings record.
AudioOf(r) ==
    <<r.sampleRate, r.gainFactor, r.bufferSize, r.shiftBits, r.hpEnable,
      r.hpCutoff>>

\* The audio settings in RAM.
AudioInRam ==
    <<currentSampleRate, currentGainFactor, currentBufferSize, i2sShiftBits,
      highpassEnabled, highpassCutoffHz>>

C14_AudioSettingsRoundTrip ==
    [][/\ \A w \in AudioSets, a \in BOOLEAN :
             (/\ SetAccepted(w.key, w.num, w.str)
              /\ HttpSet(w.key, w.num, w.str, a, 70))
             => /\ AudioOf(prefs') = AudioOf(SetMem(w.key, w.num, w.str))
                /\ AudioInRam' = AudioOf(prefs')
       /\ lastOp' \in {"power_cycle", "deferred_reboot"}
             => /\ AudioInRam' = AudioOf(prefs)
                /\ AudioOf(prefs') = AudioOf(prefs)]_vars

\* A restart has loaded settings that were all written through the setters.
C14_Witness ==
    /\ lastOp = "power_cycle"
    /\ AudioInRam = <<16000, 2500, 512, 14, FALSE, 300>>

(***************************************************************************)
(* C16: a write to a range-checked key whose submitted value lies outside  *)
(* the key's range changes no setting in RAM, leaves the store as it was   *)
(* and restarts nothing.                                                   *)
(***************************************************************************)
\* The documented range of each key, applied to the value as submitted.
SubmittedOutOfRange(w) ==
    CASE w.key = "gain" -> ~InRange(w.num, 100, 100000)
      [] w.key = "rate" -> ~InRange(w.num, 8000, 96000)
      [] w.key = "buffer" -> ~InRange(w.num, 256, 8192)
      [] w.key = "shift" -> ~InRange(w.num, 0, 24)
      [] w.key = "wifi_tx" -> ~InRange(w.num, WifiSteps[1], WifiSteps[12])
      [] w.key = "min_rate" -> ~InRange(w.num, 5, 200)
      [] w.key = "check_interval" -> ~InRange(w.num, 1, 60)
      [] w.key = "reset_hours" -> ~InRange(w.num, 1, 168)
      [] w.key = "cpu_freq" -> ~InRange(w.num, 40, 160)
      [] w.key = "hp_cutoff" -> ~InRange(w.num, 10, 10000)
      [] w.key = "oh_limit" -> ~InRange(w.num, 30, 95)
      [] OTHER -> FALSE

\* A step that changes no setting and no stored value, and restarts nothing.
SettingsKept ==
    /\ UNCHANGED <<currentSampleRate, currentBufferSize, autoThresholdEnabled,
                   minAcceptableRate, scheduledResetEnabled, audioVars,
                   sysVars, wifiTxPowerDbm, currentWifiPowerLevel,
                   overheatProtectionEnabled, overheatShutdownC,
                   overheatLockoutActive, prefs, isStreaming>>
    /\ httpReply' = "ok"

C16_Original ==
    [][\A w \in SettingsSets, a \in BOOLEAN :
          (/\ SubmittedOutOfRange(w)
           /\ HttpSet(w.key, w.num, w.str, a, 70))
          => SettingsKept]_vars

(***************************************************************************)
(* C15: a processed block is flagged clipped exactly when one of its       *)
(* amplified samples has a magnitude above 32767; the clip counter goes up *)
(* by one for a clipped block and stays for any other; every output sample *)
(* lies in -32768..32767, 32767 for an amplified sample above 32767 and    *)
(* -32768 for one below -32768.                                            *)
(***************************************************************************)
\* The samples of the raw block as they enter the gain stage.
BlockSamples(block) ==
    [i \in DOMAIN block |-> ShiftedSample(block[i], i2sShiftBits)]

C15_ClippingPerBlock ==
    [][lastOp' = "streamAudio" =>
          \E in \in {BlockSamples(i2s_32bit_buffer')} :
          \E gf \in {GainF(currentGainFactor)} :
          \E exceeds \in {{i \in DOMAIN in : SampleClips(in[i], gf)}} :
             /\ audioClippedLastBlock' = (exceeds # {})
             /\ audioClipCount' =
                    audioClipCount + (IF exceeds # {} THEN 1 ELSE 0)
             /\ DOMAIN i2s_16bit_buffer' = DOMAIN in
             /\ \A i \in DOMAIN in :
                    \E out \in {Swap16(i2s_16bit_buffer'[i])} :
                    /\ out \in (0 - 32768)..32767
                    /\ (in[i] > 0 /\ i \in exceeds) => out = 32767
                    /\ (/\ in[i] < 0
                        /\ F32Less(F32_32768, AmplifiedAbs(in[i], gf)))
                           => out = 0 - 32768]_vars

\* Two blocks were processed, the last with two samples beyond the range,
\* and only that one counted, once.
C15_Witness ==
    /\ lastOp = "streamAudio"
    /\ audioPacketsSent = 2
    /\ i2s_16bit_buffer = <<Swap16(32767), Swap16(0 - 32768)>>
    /\ audioClippedLastBlock
    /\ audioClipCount = 1

(***************************************************************************)
(* C17: once the transport of the client has gone, a main-loop iteration   *)
(* leaves streaming stopped, whether the session was playing or not, and   *)
(* streaming starts again only with a PLAY request.                        *)
(***************************************************************************)
C17_Original ==
    [][/\ (~Connected /\ lastOp' \in {"loop_client_gone", "loop_accept"})
             => ~isStreaming'
       /\ (~isStreaming /\ isStreaming') => lastOp' = "rtsp_PLAY"]_vars

(***************************************************************************)
(* C18: a connected client that is not streaming and has shown no activity *)
(* for more than 30 s is disconnected by the loop in the end, unless it    *)
(* goes away or shows activity first; the timeout never disconnects a      *)
(* client that is streaming or whose last activity is 30 s old or less.    *)
(***************************************************************************)
\* More than 30 s have passed since the last activity.
SilentTooLong == sinceRTSPActivity * TICK_MS > RTSP_TIMEOUT_MS

\* A connected client that is not streaming has been silent too long.
IdleExpired == Connected /\ ~isStreaming /\ SilentTooLong

\* The client has gone or has shown activity.
IdleEnded == ~Connected \/ ~SilentTooLong

\* A step of the timeout drops a client that satisfied IdleExpired.
TimeoutOnlyWhenExpired ==
    lastOp' = "loop_timeout" => (IdleExpired /\ ~rtspClientOpen')

C18_IdleTimeout ==
    [][TimeoutOnlyWhenExpired]_vars /\ (IdleExpired ~> IdleEnded)

\* The loop has dropped a client after a PLAY and a TEARDOWN and then 40 s
\* of silence.
C18_Witness ==
    /\ lastOp = "loop_timeout"
    /\ lastReply.verb = "TEARDOWN"
    /\ SilentTooLong
    /\ ~rtspClientOpen

(***************************************************************************)
(* C19: in every reachable state the thermal shutdown limit is one of 30,  *)
(* 35, ..., 95, whatever oh_limit writes were made and whatever value the  *)
(* store held when it was loaded.                                          *)
(***************************************************************************)
C19_LimitQuantized ==
    /\ overheatShutdownC \in OVERHEAT_MIN_LIMIT_C..OVERHEAT_MAX_LIMIT_C
    /\ (overheatShutdownC - OVERHEAT_MIN_LIMIT_C) % OVERHEAT_LIMIT_STEP_C = 0

\* The limit 45 written as 47 has survived a restart.
C19_Witness ==
    /\ lastOp = "power_cycle"
    /\ overheatShutdownC = 45
    /\ prefs.ohThresh = 45

(***************************************************************************)
(* C20: switching protection off, and every temperature sample taken       *)
(* while it is off, leaves the lockout cleared and changes neither the     *)
(* latch, nor the stored latch, nor whether serving is enabled; no         *)
(* settings write changes the latch or the serving flag.                   *)
(***************************************************************************)
C20_DisablingKeepsLatch ==
    [][/\ (\/ lastOp' = "set" /\ ~overheatProtectionEnabled'
           \/ lastOp' = "checkTemperature" /\ ~overheatProtectionEnabled)
          => /\ ~overheatLockoutActive'
             /\ overheatLatched' = overheatLatched
             /\ prefs'.ohLatched = prefs.ohLatched
             /\ rtspServerEnabled' = rtspServerEnabled
       /\ lastOp' = "set"
          => /\ overheatLatched' = overheatLatched
             /\ prefs'.ohLatched = prefs.ohLatched
             /\ rtspServerEnabled' = rtspServerEnabled]_vars

\* Protection was switched off on a device that had tripped: the lockout is
\* cleared, the latch is set and serving is off.
C20_Witness ==
    /\ lastOp = "set"
    /\ ~overheatProtectionEnabled
    /\ overheatLastReason[1] = "trip"
    /\ ~overheatLockoutActive
    /\ overheatLatched
    /\ prefs.ohLatched
    /\ ~rtspServerEnabled

(***************************************************************************)
(* C21: when a segment of a media packet (framing, header or payload) is   *)
(* not written in full, streaming stops, the sequence number, the          *)
(* timestamp and the sent-packet counter stay, nothing restarts the        *)
(* device, and no packet is sent until a PLAY request starts streaming     *)
(* again.  A short write that the following writes complete is no fault.   *)
(***************************************************************************)
SegmentFellShort ==
    \/ rtpWritten.inter < 4
    \/ rtpWritten.header < 12
    \/ rtpWritten.payload < rtpWritten.payloadSize

C22_Original ==
    [][(~isStreaming /\ isStreaming')
          => (lastOp' = "rtsp_PLAY" /\ rtspSessionId # 0)]_vars

(***************************************************************************)
(* C23: TEARDOWN destroys the session: once the reply to a TEARDOWN has    *)
(* gone out, the identifier it carried appears in no later reply, to the   *)
(* same client or to one accepted afterwards, until a SETUP is handled.    *)
(***************************************************************************)
C23_Original ==
    [][(/\ lastReply.verb = "TEARDOWN"
        /\ lastReply.session # 0
        /\ lastOp' \in {"rtsp_PLAY", "rtsp_TEARDOWN"})
          => lastReply'.session # lastReply.session]_vars

(***************************************************************************)
(* C24: one client at a time: the loop takes a client from the server only *)
(* while it holds no established connection; replies and media packets go  *)
(* out only on the established connection, whose peer stays the same; and  *)
(* a peer that waits keeps waiting until the connection before it has      *)
(* ended.                                                                  *)
(***************************************************************************)
C24_OneClientAtATime ==
    [][/\ lastOp' = "loop_accept" => ~Connected
       /\ (rtspPeer' # rtspPeer \/ Len(backlog') < Len(backlog))
             => (lastOp' = "loop_accept" /\ ~Connected /\ Connected')
       /\ (lastReply' # lastReply \/ lastRtp' # lastRtp)
             => (Connected /\ UNCHANGED <<rtspPeer, backlog>>)
       /\ Connected => Len(backlog') >= Len(backlog)]_vars

\* Peer 2 waited while peer 1 was streamed to and is accepted after it.
C24_Witness ==
    /\ lastOp = "loop_accept"
    /\ rtspPeer = 2
    /\ backlog = <<>>
    /\ lastRtp.samples > 0
    /\ lastReply.verb = "PLAY"

(***************************************************************************)
(* C25: when streamAudio reads from the capture interface the two sample   *)
(* buffers are allocated for exactly currentBufferSize samples and the     *)
(* driver was last set up with the current sample rate, buffer size and    *)
(* shift; a step that changes one of the three leaves buffers and driver   *)
(* rebuilt for the new values and streaming stopped.                       *)
(***************************************************************************)
PipelineMatchesSettings ==
    /\ bufferCapacity = currentBufferSize
    /\ i2sInstalledFor.sample_rate = currentSampleRate
    /\ i2sInstalledFor.bufferSize = currentBufferSize
    /\ i2sInstalledFor.dma_buf_len = Min(currentBufferSize, 512)
    /\ i2sInstalledFor.shiftBits = i2sShiftBits

C25_NoHalfAppliedConfig ==
    [][/\ lastOp' = "streamAudio" => PipelineMatchesSettings
       /\ (\/ currentSampleRate' # currentSampleRate
           \/ currentBufferSize' # currentBufferSize
           \/ i2sShiftBits' # i2sShiftBits)
             => (PipelineMatchesSettings' /\ ~isStreaming')]_vars

\* A block was read after the buffer size, the rate and the shift had all
\* been changed.
C25_Witness ==
    /\ lastOp = "streamAudio"
    /\ currentBufferSize = 256
    /\ currentSampleRate = 16000
    /\ i2sShiftBits = 14
    /\ bufferCapacity = 256
    /\ rtpWritten.payload = 512

(***************************************************************************)
(* Properties of the performance check (checked under SpecPerf)            *)
(***************************************************************************)
PerfMeasured == lastOp \in {"perf_ok", "perf_degraded", "perf_recovery"}

\* C26: the performance check restarts the audio pipeline only in a playing
\* session whose statistics window is older than 30 s, whose computed rate
\* is below minAcceptableRate, and with autoRecoveryEnabled; the restart
\* leaves the sent-packet counter at 0 and the window restarted; every other
\* check, and every check with auto-recovery off, leaves the pipeline, the
\* streaming flag, the counters and the window as they were.
C26_AutoRecoveryOnlyWhenDue ==
    [][/\ lastOp' = "perf_recovery"
          => /\ isStreaming
             /\ sinceStatsReset > PERF_WINDOW_MS
             /\ CurrentRate(audioPacketsSent, sinceStatsReset)
                    < minAcceptableRate
             /\ autoRecoveryEnabled
             /\ audioPacketsSent' = 0
             /\ sinceStatsReset' = 0
       /\ (\/ lastOp' \in {"perf_skipped", "perf_ok", "perf_degraded"}
           \/ PerfMeasured' /\ ~autoRecoveryEnabled)
          => UNCHANGED <<i2sVars, hpfVars, isStreaming, sessionVars, statVars>>]_vars

C26_Witness ==
    /\ lastOp = "perf_recovery"
    /\ rtspClientOpen
    /\ ~isStreaming
    /\ audioPacketsSent = 0
    /\ sinceStatsReset = 0
    /\ uptimeTicks * TICK_MS > PERF_WINDOW_MS

\* floor(n * 1000 / t) without a width: three decimal steps of long
\* division after the integer quotient.
RateStep(qr, t) == <<qr[1] * 10 + (qr[2] * 10) \div t, (qr[2] * 10) % t>>

ExactRate(n, t) ==
    RateStep(RateStep(RateStep(<<n \div t, n % t>>, t), t), t)[1]

\* C27: whenever the performance check measures a rate, the value it
\* computes in 32-bit arithmetic is floor(packets * 1000 / elapsed ms).
C27_Original ==
    [][(PerfMeasured' /\ lastOp' # lastOp)
          => CurrentRate(audioPacketsSent, sinceStatsReset)
                 = ExactRate(audioPacketsSent, sinceStatsReset)]_vars

(***************************************************************************)
(* Properties of the temperature samples (checked under SpecGuard)         *)
(***************************************************************************)
\* C28: a temperature check clears the transient lockout only on a valid
\* sample of at most limit - 5 with protection enabled; a valid sample
\* strictly between limit - 5 and the limit leaves it set; and the check
\* that clears it changes neither the latch, in RAM or stored, nor the
\* serving flag.
C28_LockoutRearm ==
    [][lastOp' = "checkTemperature"
         => /\ (overheatLockoutActive /\ ~overheatLockoutActive')
                => /\ lastTemperatureValid'
                   /\ lastTemperatureC'
                          <= overheatShutdownC - OVERHEAT_LIMIT_STEP_C
                   /\ overheatProtectionEnabled
                   /\ overheatLatched' = overheatLatched
                   /\ prefs'.ohLatched = prefs.ohLatched
                   /\ rtspServerEnabled' = rtspServerEnabled
            /\ (/\ overheatLockoutActive
                /\ lastTemperatureValid'
                /\ lastTemperatureC'
                       > overheatShutdownC - OVERHEAT_LIMIT_STEP_C
                /\ lastTemperatureC' < overheatShutdownC)
                => overheatLockoutActive']_vars

\* C28 witness: a check at exactly limit - 5 has cleared the lockout of a
\* device that is still latched and not serving.
C28_Witness ==
    /\ lastOp = "checkTemperature"
    /\ lastTemperatureValid
    /\ lastTemperatureC = overheatShutdownC - OVERHEAT_LIMIT_STEP_C
    /\ ~overheatLockoutActive
    /\ overheatLatched
    /\ prefs.ohLatched
    /\ ~rtspServerEnabled

TripDue ==
    /\ overheatProtectionEnabled
    /\ ~overheatLockoutActive
    /\ lastTemperatureC' >= overheatShutdownC

\* C29: a reading is taken as valid only within -20..130; a check with an
\* implausible reading leaves the guard in the sensor fault and changes
\* neither the latch, the lockout nor the serving flag; a check with a valid
\* reading clears the fault and applies protection to that reading: with
\* protection enabled and no lockout a reading at or above the limit latches
\* and stops serving in that step, and any other valid reading leaves latch
\* and serving flag as they were.
C29_SensorFault ==
    [][lastOp' = "checkTemperature"
         => IF ~lastTemperatureValid'
            THEN /\ overheatSensorFault'
                 /\ overheatLatched' = overheatLatched
                 /\ prefs'.ohLatched = prefs.ohLatched
                 /\ overheatLockoutActive' = overheatLockoutActive
                 /\ rtspServerEnabled' = rtspServerEnabled
            ELSE /\ lastTemperatureC' >= 0 - 20
                 /\ lastTemperatureC' <= 130
                 /\ ~overheatSensorFault'
                 /\ IF TripDue
                    THEN /\ overheatLatched'
                         /\ prefs'.ohLatched
                         /\ overheatLockoutActive'
                         /\ ~rtspServerEnabled'
                    ELSE /\ overheatLatched' = overheatLatched
                         /\ prefs'.ohLatched = prefs.ohLatched
                         /\ rtspServerEnabled' = rtspServerEnabled]_vars

\* C29 witness: a valid reading below the limit has ended a sensor fault on a
\* device that serves, with protection enabled and the latch clear.
C29_Witness ==
    /\ lastOp = "checkTemperature"
    /\ overheatLastReason = <<"sensor_restored">>
    /\ prefs.ohReason = <<"sensor_restored">>
    /\ ~overheatSensorFault
    /\ lastTemperatureValid
    /\ overheatProtectionEnabled
    /\ ~overheatLatched
    /\ ~prefs.ohLatched
    /\ rtspServerEnabled

(***************************************************************************)
(* Properties of the scheduled restart (checked under SpecSched)           *)
(***************************************************************************)
\* C30: the check of a loop iteration restarts the device exactly when
\* scheduledResetEnabled is true and the whole hours since the start are at
\* least resetIntervalHours, whether or not a session is playing.
C30_Original ==
    [][lastOp' \in {"scheduled_reset", "scheduled_check"}
         => (lastOp' = "scheduled_reset"
               <=> (/\ scheduledResetEnabled
                    /\ uptimeTicks \div TicksPerHour >= resetIntervalHours))]_vars

(***************************************************************************)
(* Properties of the request parser (checked under SpecVerb)               *)
(***************************************************************************)
\* The parse buffer once the pending bytes have been read into it, the
\* position after that read, and the request the terminator search then
\* delimits.
BufferAfterRead ==
    WriteAt(rtspParseBuffer, rtspParseBufferPos,
            SubSeq(clientRx, 1, ReadCount(rtspParseBufferPos, Len(clientRx))))

PosAfterRead == rtspParseBufferPos + ReadCount(rtspParseBufferPos, Len(clientRx))

RequestFound == SubSeq(BufferAfterRead, 1, StrStr(BufferAfterRead))

Dispatched ==
    lastOp \in {"rtsp_OPTIONS", "rtsp_DESCRIBE", "rtsp_SETUP", "rtsp_PLAY",
                "rtsp_TEARDOWN", "rtsp_GET_PARAMETER", "rtsp_other"}

\* The verb of a request: its bytes up to the first blank or line end.
VerbToken(request) ==
    LET ends == {i \in 1..Len(request) : request[i] \in {32, CR, LF}}
    IN  IF ends = {} THEN request
        ELSE SubSeq(request, 1, SetMin(ends) - 1)

KnownVerbs ==
    {S_OPTIONS, S_DESCRIBE, S_SETUP, S_PLAY, S_TEARDOWN, S_GET_PARAMETER}

\* C31: the dispatch of a request whose verb is none of OPTIONS, DESCRIBE,
\* SETUP, PLAY, TEARDOWN, GET_PARAMETER sends no reply, leaves the streaming
\* flag, the session identifier, the sequence number, the timestamp and the
\* packet counter unchanged, and removes the request's bytes from the buffer.
C31_Original ==
    [][(Dispatched' /\ clientRx' # clientRx
        /\ VerbToken(RequestFound) \notin KnownVerbs)
          => /\ lastReply' = lastReply
             /\ UNCHANGED <<isStreaming, sessionVars>>
             /\ rtspParseBufferPos'
                    = PosAfterRead - (Len(RequestFound) + 4)]_vars

(***************************************************************************)
(* Properties of requests sent back to back (checked under SpecPipe)       *)
(***************************************************************************)
\* The bytes received and not yet dispatched, in arrival order: those in
\* the parse buffer, then those still in the socket.
Undispatched == SubSeq(rtspParseBuffer, 1, rtspParseBufferPos) \o clientRx

HeaderLen == Len(RequestFound) + 4

\* C32: the dispatch of a complete request of h bytes, terminator included,
\* leaves in the parse buffer, in arrival order, exactly the bytes that were
\* read after the request, lowers the position after the read by h, and
\* loses, repeats or reorders no byte that follows the request.
C32_ConsumesExactlyTheRequest ==
    [][(Dispatched' /\ clientRx' # clientRx /\ HeaderLen <= PosAfterRead)
          => /\ rtspParseBufferPos' = PosAfterRead - HeaderLen
             /\ SubSeq(rtspParseBuffer', 1, rtspParseBufferPos')
                    = SubSeq(BufferAfterRead, HeaderLen + 1, PosAfterRead)
             /\ Undispatched'
                    = SubSeq(Undispatched, HeaderLen + 1,
                             Len(Undispatched))]_vars

\* C32 witness: a keep-alive that arrived with the first six bytes of a
\* TEARDOWN has been dispatched and those six bytes are at the front of the
\* buffer.
C32_Witness ==
    /\ lastOp = "rtsp_GET_PARAMETER"
    /\ lastReply.cseq = <<55>>
    /\ rtspParseBufferPos = 6
    /\ SubSeq(rtspParseBuffer, 1, 6) = SubSeq(S_TEARDOWN, 1, 6)
    /\ clientRx = <<>>

\* A complete request lies in the parse buffer: a terminator within the
\* bytes received.
RequestBuffered ==
    /\ Connected
    /\ IndexOf(SubSeq(rtspParseBuffer, 1, Max(rtspParseBufferPos, 0)),
               Terminator, 0) >= 0

\* C36: a complete request that has been read into the parse buffer is
\* eventually dispatched, or the client's connection ends, even when the
\* client sends nothing more.
C36_Original == RequestBuffered ~> (~RequestBuffered)

(***************************************************************************)
(* Properties of the terminator search (checked under SpecSplit)           *)
(***************************************************************************)
\* C37: the request that a processRTSP step dispatches lies within the
\* bytes received on the connection since the last dispatch: the header
\* length it detects is at most the position after the read.
C37_Original ==
    [][(lastOp' \in ProcessRtspOps /\ lastOp' # "rtsp_overflow"
        /\ clientRx' # clientRx /\ StrStr(BufferAfterRead) >= 0)
          => HeaderLen <= PosAfterRead]_vars

(***************************************************************************)
(* Properties of the filter coefficients (checked under SpecHpf)           *)
(***************************************************************************)
\* C33: a block recomputes the coefficients only when the sample rate or the
\* cutoff differs from the recorded ones, and once a block has been
\* processed the test for recomputing is false, so that further blocks
\* under the same configuration recompute nothing.
C33_Original ==
    [][lastOp' = "streamAudio"
         => /\ (hpfVars' # hpfVars => HpfStale)
            /\ ~HpfStale']_vars

(***************************************************************************)
(* Properties of the deferred restart (checked under SpecRebootLive)       *)
(***************************************************************************)
RebootRequested == lastOp \in {"reboot", "factory_reset"}

Restarted == lastOp \in {"deferred_reboot", "deferred_factory_reset"}

\* C34: a reboot or factory-reset request only records the intent, and a
\* later loop iteration restarts the device: every request is eventually
\* followed by the restart.
C34_Original == RebootRequested ~> Restarted

(***************************************************************************)
(* C35: when the loop accepts a new client, isStreaming is false, whatever *)
(* state the previous connection ended in, so that no packet goes to a     *)
(* connection that has not sent PLAY (checked under Spec).                 *)
(***************************************************************************)
C35_Original == [][lastOp' = "loop_accept" => ~isStreaming']_vars

(***************************************************************************)
(* Properties of the pipeline restart (checked under SpecRestart)          *)
(***************************************************************************)
\* A step in which restartI2S() ran and returned: an accepted write to the
\* gain, the rate, the buffer size or the shift, the reset_i2s action, or
\* the auto-recovery of the performance check.
RestartReturned ==
    \/ \E w \in RestartSets : HttpSet(w.key, w.num, w.str, TRUE, 70)
    \/ HttpActionResetI2S(TRUE, 70)
    \/ CheckPerformance(TRUE, 70) /\ lastOp' = "perf_recovery"

\* C38: after every restart of the capture pipeline isStreaming is false
\* while the client's connection is left as it was, and streaming starts
\* again only with a PLAY request.
C38_RestartStopsStreaming ==
    [][/\ RestartReturned
             => /\ ~isStreaming'
                /\ UNCHANGED <<rtspClientOpen, netUp, rtspSessionId>>
       /\ (~isStreaming /\ isStreaming') => lastOp' = "rtsp_PLAY"]_vars

\* The reset_i2s action has stopped a session that had sent packets, and
\* the client is still connected.
C38_Witness ==
    /\ lastOp = "reset_i2s"
    /\ httpReply = "ok"
    /\ Connected
    /\ rtspSessionId # 0
    /\ audioPacketsSent > 0
    /\ ~isStreaming

(***************************************************************************)
(* C39: in every reachable state a lockout implies the latch, and with it  *)
(* that serving is disabled (checked under SpecLatch).                     *)
(***************************************************************************)
C39_LockoutImpliesLatch ==
    overheatLockoutActive => (overheatLatched /\ ~rtspServerEnabled)

\* The lockout of a trip is still in force after a later server_stop.
C39_Witness ==
    /\ lastOp = "server_stop"
    /\ overheatLockoutActive
    /\ overheatLatched
    /\ overheatTripTemp > 0

(***************************************************************************)
(* C40: while the persisted latch is set, the trip temperature and the     *)
(* reason, in memory and in the store, stay as recordOverheatTrip wrote    *)
(* them: no step other than the acknowledgement or a further trip changes  *)
(* them (checked under SpecLatch).                                         *)
(***************************************************************************)
FurtherTrip == ~overheatLockoutActive /\ overheatLockoutActive'

C40_Original ==
    [][(/\ prefs.ohLatched
        /\ prefs'.ohLatched
        /\ lastOp' # "thermal_clear"
        /\ ~FurtherTrip)
          => /\ overheatTripTemp' = overheatTripTemp
             /\ overheatLastReason' = overheatLastReason
             /\ prefs'.ohTripC = prefs.ohTripC
             /\ prefs'.ohReason = prefs.ohReason]_vars
====
